---- MODULE Spec2Model ----
(***************************************************************************)
(* A model of libnsgif's progressive GIF decoder.                          *)
(*                                                                         *)
(* The repository holds two generations of the decoder:                    *)
(*   - src/utils/log.h     : nsgif_create / nsgif_initialise /             *)
(*                           nsgif_decode_frame / nsgif_finalise           *)
(*   - src/src/libnsgif.c  : gif_create / gif_initialise /                 *)
(*                           gif_decode_frame / gif_finalise               *)
(* The variable impl selects which of the two a behaviour runs; both are   *)
(* modelled byte for byte over the same source buffers.                    *)
(***************************************************************************)
EXTENDS Integers, Sequences, FiniteSets, TLC

VARIABLES
    impl,   \* "nsgif" (src/utils/log.h) or "gif" (src/src/libnsgif.c)
    sid,    \* which stream of Streams the embedder is feeding
    gif,    \* the decoder object (struct nsgif / struct gif_animation)
    data,   \* the embedder's source buffer, as the decoder sees it
    env,    \* the embedder's side of the bitmap capability
    last,   \* the last call the embedder made, with its return code
    anim,   \* the animation cursor nsgif_frame_prepare advances
    line,   \* the row loop of an interlaced frame's decode
    walk    \* where a DataScan call under way is in its loops

vars == <<impl, sid, gif, data, env, last, anim, line, walk>>

---------------------------------------------------------------------------
(* Bounds of the model.                                                    *)

\* FrameDecode is called with frame numbers 0..MaxDecodeIdx.
MaxDecodeIdx == 2

\* Colour tables keep their first ColourEntries entries.
ColourEntries == 4

---------------------------------------------------------------------------
(* Program constants.                                                      *)

NSGIF_INVALID_FRAME == -1
NSGIF_TRAILER == 59
NSGIF_BLOCK_TERMINATOR == 0
NSGIF_COLOUR_TABLE_MASK == 128
NSGIF_COLOUR_TABLE_SIZE_MASK == 7
GIF_EXT_INTRODUCER == 33
GIF_EXT_GRAPHIC_CONTROL == 249
GIF_EXT_COMMENT == 254
GIF_EXT_APPLICATION == 255
NSGIF_IMAGE_SEPARATOR == 44
NSGIF_IMAGE_DESCRIPTOR_LEN == 10
GIF_MASK_INTERLACE == 64
GIF_STANDARD_HEADER_SIZE == 13
NSGIF_DISPOSAL_RESTORE_BG == 2
NSGIF_DISPOSAL_RESTORE_PREV == 3
NSGIF_DISPOSAL_RESTORE_QUIRK == 4
MaxFrames == 4096
LzwDictionary == 4096
LzwMaxWidth == 12
\* lzw.h is not part of the sources; the value is the one the format fixes
\* (maximum code width 12 bits).
LZW_CODE_MAX == 12

\* Colours are kept as their four bytes in memory order (r, g, b, a).
NSGIF_PROCESS_COLOURS == <<0, 0, 0, 170>>
NSGIF_TRANSPARENT_COLOUR == <<0, 0, 0, 0>>
ZeroColour == <<0, 0, 0, 0>>
\* 0xFFFFFFFF in the source; the code only asks whether it is above 0xFF.
NSGIF_NO_TRANSPARENCY == 256

---------------------------------------------------------------------------
(* The source streams the embedder feeds.                                  *)

\* 1x1 static image with a 2-entry global colour table (the minimal file).
StreamStatic ==
    <<71, 73, 70, 56, 57, 97, 1, 0, 1, 0, 128, 0, 0, 0, 0, 0, 255, 255, 255,
      44, 0, 0, 0, 0, 1, 0, 1, 0, 0, 2, 2, 68, 1, 0, 59>>

\* 2x1 animation: frame 0 with a graphic control extension, a comment
\* extension, frame 1 with graphic control (restore previous, transparency),
\* a local colour table and its image data split over two sub-blocks.
StreamAnim ==
    <<71, 73, 70, 56, 57, 97, 2, 0, 1, 0, 128, 0, 0, 0, 0, 0, 255, 255, 255,
      33, 249, 4, 4, 10, 0, 0, 0, 44, 0, 0, 0, 0, 2, 0, 1, 0, 0, 2, 2, 12,
      10, 0, 33, 254, 1, 65, 0, 33, 249, 4, 13, 5, 0, 1, 0, 44, 1, 0, 0, 0,
      1, 0, 1, 0, 128, 255, 0, 0, 0, 255, 0, 2, 1, 68, 1, 1, 0, 59>>

\* 1x1 image without a global colour table whose LZW data holds a bad code.
StreamBadCode ==
    <<71, 73, 70, 56, 57, 97, 1, 0, 1, 0, 0, 0, 0, 44, 0, 0, 0, 0, 1, 0, 1,
      0, 0, 2, 1, 60, 0, 59>>

\* Header and logical screen descriptor followed by the trailer.
StreamEmpty ==
    <<71, 73, 70, 56, 57, 97, 1, 0, 1, 0, 0, 0, 0, 59>>

\* 2x1 animation of three frames, background index 1 (white): frame 0
\* covers the canvas (white, black), frame 1 is one white pixel at x = 1
\* with disposal restore-previous, frame 2 one black pixel at x = 0.
StreamDispose ==
    <<71, 73, 70, 56, 57, 97, 2, 0, 1, 0, 128, 1, 0, 0, 0, 0, 255, 255, 255,
      44, 0, 0, 0, 0, 2, 0, 1, 0, 0, 2, 2, 12, 10, 0,
      33, 249, 4, 12, 10, 0, 0, 0, 44, 1, 0, 0, 0, 1, 0, 1, 0, 0,
      2, 2, 76, 1, 0,
      44, 0, 0, 0, 0, 1, 0, 1, 0, 0, 2, 2, 68, 1, 0, 59>>

\* 1x1 logical screen, background index 1 (white), three frames of one
\* pixel: frame 0 at x = 0 and frame 1 at x = 2, both with disposal
\* restore-background, frame 2 at x = 0.
StreamClip ==
    <<71, 73, 70, 56, 57, 97, 1, 0, 1, 0, 128, 1, 0, 0, 0, 0, 255, 255, 255,
      33, 249, 4, 8, 10, 0, 0, 0, 44, 0, 0, 0, 0, 1, 0, 1, 0, 0,
      2, 2, 68, 1, 0,
      33, 249, 4, 8, 10, 0, 0, 0, 44, 2, 0, 0, 0, 1, 0, 1, 0, 0,
      2, 2, 76, 1, 0,
      44, 0, 0, 0, 0, 1, 0, 1, 0, 0, 2, 2, 68, 1, 0, 59>>

\* StreamStatic with ten zero bytes where the second frame or the trailer
\* should start.
StreamBadSep ==
    <<71, 73, 70, 56, 57, 97, 1, 0, 1, 0, 128, 0, 0, 0, 0, 0, 255, 255, 255,
      44, 0, 0, 0, 0, 1, 0, 1, 0, 0, 2, 2, 68, 1, 0,
      0, 0, 0, 0, 0, 0, 0, 0, 0, 0>>

Streams ==
    <<StreamStatic, StreamAnim, StreamBadCode, StreamEmpty, StreamDispose,
      StreamClip, StreamBadSep>>

\* The lengths at which the embedder hands each stream over while it is
\* arriving: inside and at the end of every part of the container.
Cuts == << {6, 14, 16, 24, 29, 31, 32, 33, 34, 35},
           {26, 37, 40, 41, 42, 45, 60, 68, 72, 75, 77, 78},
           {20, 24, 25, 27, 28},
           {13, 14},
           {57, 73},
           {42, 81},
           {35, 44} >>

---------------------------------------------------------------------------
(* Arithmetic on bytes.                                                    *)

Min(a, b) == IF a < b THEN a ELSE b

\* x & (1 << bit)  as a boolean
Bit(x, bit) == (x \div (2 ^ bit)) % 2 = 1

\* lo | (hi << 8)
U16(lo, hi) == lo + 256 * hi

\* The byte data[p] of a world s.
D(s, p) == s.d[p + 1]

\* Result of a parse step: return code, cursor, world.
R(ret, pos, s) == [ret |-> ret, pos |-> pos, s |-> s]

---------------------------------------------------------------------------
(* Frame records.                                                          *)

\* Memory that realloc/malloc returned and nothing has written yet.
UninitFrame ==
    [init |-> FALSE, display |-> FALSE, frame_delay |-> 0,
     frame_pointer |-> 0, decoded |-> FALSE, opaque |-> FALSE,
     redraw_required |-> FALSE, disposal_method |-> 0,
     transparency |-> FALSE, transparency_index |-> 0, flags |-> 0,
     redraw |-> [x |-> 0, y |-> 0, w |-> 0, h |-> 0]]

\* frames[i] of a world
F(s, i) == s.g.frames[i + 1]

SetF(s, i, f) == [s EXCEPT !.g.frames[i + 1] = f]

\* A frame array grown to count entries, old entries kept.
Grown(frames, count) ==
    [k \in 1..count |-> IF k <= Len(frames) THEN frames[k] ELSE UninitFrame]

---------------------------------------------------------------------------
(* src/utils/log.h : the survey pass of nsgif_initialise.                  *)

\* nsgif__parse_extension_graphic_control: data points at the label, len
\* bytes remain.
nsgif__parse_extension_graphic_control(s, idx, p, len) ==
    IF len < 6 THEN R("INSUFFICIENT_DATA", p, s)
    ELSE
      LET f0 == F(s, idx)
          f1 == [f0 EXCEPT !.frame_delay = U16(D(s, p + 3), D(s, p + 4))]
          f2 == IF Bit(D(s, p + 2), 0)
                THEN [f1 EXCEPT !.transparency = TRUE,
                                !.transparency_index = D(s, p + 5)]
                ELSE f1
          \* (data[2] & 0x1c) >> 2
          disp == (D(s, p + 2) \div 4) % 8
          meth == IF disp = NSGIF_DISPOSAL_RESTORE_QUIRK
                  THEN NSGIF_DISPOSAL_RESTORE_PREV ELSE disp
          f3 == [f2 EXCEPT !.disposal_method = meth,
                           !.redraw_required =
                               (meth = NSGIF_DISPOSAL_RESTORE_BG
                                \/ meth = NSGIF_DISPOSAL_RESTORE_PREV)]
      IN R("OK", p, SetF(s, idx, f3))

\* "NETSCAPE2.0"
NetscapeId == <<78, 69, 84, 83, 67, 65, 80, 69, 50, 46, 48>>

\* nsgif__parse_extension_application without the loop count: the
\* extension is skipped whatever it holds.
parse_extension_application_skipped(s, p, len) ==
    IF len < 17 THEN R("INSUFFICIENT_DATA", p, s) ELSE R("OK", p, s)

\* nsgif__parse_extension_application
nsgif__parse_extension_application(s, p, len) ==
    IF len < 17 THEN R("INSUFFICIENT_DATA", p, s)
    ELSE IF /\ D(s, p + 1) = 11
            /\ \A k \in 1..11 : D(s, p + 1 + k) = NetscapeId[k]
            /\ D(s, p + 13) = 3
            /\ D(s, p + 14) = 1
         THEN R("OK", p, [s EXCEPT !.g.loop_count =
                                       U16(D(s, p + 15), D(s, p + 16))])
         ELSE R("OK", p, s)

\* The inner loop of nsgif__parse_frame_extensions: skip sub-blocks until a
\* zero block or the end of the data.  The result is the cursor, or -1 when
\* the loop returns NSGIF_INSUFFICIENT_DATA.
RECURSIVE SkipExtBlocks(_, _, _)
SkipExtBlocks(s, p, end) ==
    IF p < end /\ D(s, p) # NSGIF_BLOCK_TERMINATOR
    THEN LET q == p + D(s, p) + 1
         IN IF q >= end THEN -1 ELSE SkipExtBlocks(s, q, end)
    ELSE p

\* The outer loop of nsgif__parse_frame_extensions, from cursor p.
\* insuff is the code the function returns for missing data.
RECURSIVE ExtLoop(_, _, _, _, _, _)
ExtLoop(s, idx, p, end, decode, insuff) ==
    IF end - p > 0 /\ D(s, p) = GIF_EXT_INTRODUCER
    THEN
      LET q == p + 1
          bytes == end - q
      IN IF bytes = 0 THEN R(insuff, p, s)
         ELSE
           LET label == D(s, q)
               r == IF label = GIF_EXT_GRAPHIC_CONTROL /\ decode
                    THEN nsgif__parse_extension_graphic_control(s, idx, q, bytes)
                    ELSE IF label = GIF_EXT_APPLICATION /\ decode
                    THEN nsgif__parse_extension_application(s, q, bytes)
                    ELSE R("OK", q, s)
               block_step == label # GIF_EXT_COMMENT
           IN IF r.ret # "OK" THEN R(insuff, p, r.s)
              ELSE IF block_step /\ bytes < 2 THEN R(insuff, p, r.s)
              ELSE
                LET q2 == IF block_step THEN q + 2 + D(s, q + 1) ELSE q + 1
                    q3 == SkipExtBlocks(s, q2, end)
                IN IF q3 = -1 THEN R(insuff, p, r.s)
                   ELSE ExtLoop(r.s, idx, q3 + 1, end, decode, insuff)
    ELSE R("OK", Min(p, end), s)

\* nsgif__parse_frame_extensions: *pos is written on success only.
nsgif__parse_frame_extensions(s, idx, pos, decode) ==
    LET r == ExtLoop(s, idx, pos, s.g.buffer_size, decode, "INSUFFICIENT_DATA")
    IN IF r.ret = "OK" THEN r ELSE R(r.ret, pos, r.s)

\* nsgif__parse_image_descriptor
nsgif__parse_image_descriptor(s, idx, pos, decode) ==
    LET len == s.g.buffer_size - pos
    IN IF len < NSGIF_IMAGE_DESCRIPTOR_LEN THEN R("INSUFFICIENT_DATA", pos, s)
       ELSE IF ~decode THEN R("OK", pos + NSGIF_IMAGE_DESCRIPTOR_LEN, s)
       ELSE IF D(s, pos) # NSGIF_IMAGE_SEPARATOR
       THEN R("FRAME_DATA_ERROR", pos, s)
       ELSE
         LET x == U16(D(s, pos + 1), D(s, pos + 2))
             y == U16(D(s, pos + 3), D(s, pos + 4))
             w == U16(D(s, pos + 5), D(s, pos + 6))
             h == U16(D(s, pos + 7), D(s, pos + 8))
             f == [F(s, idx) EXCEPT !.flags = D(s, pos + 9),
                                    !.redraw = [x |-> x, y |-> y,
                                                w |-> w, h |-> h]]
             s1 == SetF(s, idx, f)
             \* Allow first frame to grow image dimensions.
             s2 == IF s1.g.frame_count = 0
                   THEN [s1 EXCEPT
                           !.g.width = IF x + w > @ THEN x + w ELSE @,
                           !.g.height = IF y + h > @ THEN y + h ELSE @]
                   ELSE s1
         IN R("OK", pos + NSGIF_IMAGE_DESCRIPTOR_LEN, s2)

\* The colour of the entry-th r,g,b triple at pos, alpha forced to 0xff.
Rgb(s, pos, entry) ==
    <<D(s, pos + 3 * entry), D(s, pos + 3 * entry + 1),
      D(s, pos + 3 * entry + 2), 255>>

\* A colour table with its first entries entries read from pos.
Extracted(s, table, entries, pos) ==
    [k \in 1..Len(table) |->
        IF k <= entries THEN Rgb(s, pos, k - 1) ELSE table[k]]

\* nsgif__colour_table_extract into the table named which
\* ("global_colour_table" or "local_colour_table").
nsgif__colour_table_extract(s, which, entries, pos, decode) ==
    LET len == s.g.buffer_size - pos
    IN IF len < entries * 3 THEN R("INSUFFICIENT_DATA", pos, s)
       ELSE IF decode
       THEN R("OK", pos + entries * 3,
              IF which = "global_colour_table"
              THEN [s EXCEPT !.g.global_colour_table =
                                 Extracted(s, @, entries, pos)]
              ELSE [s EXCEPT !.g.local_colour_table =
                                 Extracted(s, @, entries, pos)])
       ELSE R("OK", pos + entries * 3, s)

\* 2 << (flags & NSGIF_COLOUR_TABLE_SIZE_MASK)
TableEntries(flags) == 2 * (2 ^ (flags % (NSGIF_COLOUR_TABLE_SIZE_MASK + 1)))

\* nsgif__parse_colour_table
nsgif__parse_colour_table(s, idx, pos, decode) ==
    IF ~Bit(F(s, idx).flags, 7)
    THEN R("OK", pos, [s EXCEPT !.g.colour_table = "global"])
    ELSE
      LET r == nsgif__colour_table_extract(s, "local_colour_table",
                   TableEntries(F(s, idx).flags), pos, decode)
      IN IF r.ret # "OK" THEN r
         ELSE R("OK", r.pos, [r.s EXCEPT !.g.colour_table = "local"])

\* The sub-block walk that takes a block running past the end of the data
\* for the end of the chain.
RECURSIVE SkipImageBlocksLax(_, _, _)
SkipImageBlocksLax(s, p, len) ==
    IF len < 1 THEN [k |-> "short", p |-> p, len |-> len]
    ELSE LET block_size == D(s, p) + 1
         IN IF block_size > len \/ block_size = 1
            THEN [k |-> "done", p |-> p + Min(block_size, len),
                  len |-> len - Min(block_size, len)]
            ELSE SkipImageBlocksLax(s, p + block_size, len - block_size)

\* The sub-block walk of nsgif__parse_image_data (survey): data at p, len
\* bytes left.  "done" with the cursor after the zero block, "short" when
\* the data ends at a block boundary, "overrun" when a block runs past it.
RECURSIVE SkipImageBlocks(_, _, _)
SkipImageBlocks(s, p, len) ==
    IF len < 1 THEN [k |-> "short", p |-> p, len |-> len]
    ELSE LET block_size == D(s, p) + 1
         IN IF block_size > len THEN [k |-> "overrun", p |-> p, len |-> len]
            ELSE IF block_size = 1
            THEN [k |-> "done", p |-> p + 1, len |-> len - 1]
            ELSE SkipImageBlocks(s, p + block_size, len - block_size)

\* The entry at index i of a colour table (entries past the part the model
\* keeps are the zeroes calloc left).
TableAt(table, i) == IF i < Len(table) THEN table[i + 1] ELSE ZeroColour

\* calloc(NSGIF_MAX_COLOURS, sizeof(uint32_t))
ZeroTable == [k \in 1..ColourEntries |-> ZeroColour]

---------------------------------------------------------------------------
(* The embedder's bitmap capability (src/test/decode_gif.c).               *)

\* bitmap_create: calloc(width * height, BYTES_PER_PIXEL), or NULL when the
\* allocation fails (s.oom = "bitmap").  Handles are 1, 2, ...; 0 is NULL.
bitmap_create(s, width, height) ==
    IF s.oom = "bitmap" THEN [h |-> 0, s |-> s]
    ELSE LET h == s.e.made + 1
         IN [h |-> h,
             s |-> [s EXCEPT !.e.made = h,
                             !.e.live = @ \cup {h},
                             !.e.w = width, !.e.h = height,
                             !.e.pix = [k \in 1..(width * height) |->
                                           ZeroColour]]]

\* bitmap_destroy: free(bitmap)
bitmap_destroy(s, h) ==
    [s EXCEPT !.e.live = @ \ {h}, !.e.destroyed = Append(@, h)]

\* A call of one of the optional hooks with handle h.
hook(s, name, h) == [s EXCEPT !.e.hooks = @ \cup {<<name, h>>}]

---------------------------------------------------------------------------
(* src/utils/log.h : nsgif_finalise, nsgif_create.                         *)

\* A finalise that releases the decoder's memory and leaves the bitmap to
\* the embedder.
finalise_keeps_bitmap(s) ==
    [s EXCEPT !.g.frame_image = 0,
              !.g.frames = <<>>,
              !.g.local_colour_table = <<>>,
              !.g.global_colour_table = <<>>,
              !.g.prev_frame = <<>>,
              !.g.lzw_ctx = FALSE]

\* nsgif_finalise
nsgif_finalise(s) ==
    LET s1 == IF s.g.frame_image # 0
              THEN bitmap_destroy(s, s.g.frame_image) ELSE s
    IN [s1 EXCEPT !.g.frame_image = 0,
                  !.g.frames = <<>>,
                  !.g.local_colour_table = <<>>,
                  !.g.global_colour_table = <<>>,
                  !.g.prev_frame = <<>>,
                  !.g.lzw_ctx = FALSE]

\* nsgif_create / gif_create: memset(gif, 0, ...), then the two indices.
nsgif_create ==
    [lzw_ctx |-> FALSE, width |-> 0, height |-> 0,
     frame_count |-> 0, frame_count_partial |-> 0,
     frames |-> <<>>, frame_holders |-> 0,
     decoded_frame |-> NSGIF_INVALID_FRAME, frame_image |-> 0,
     loop_count |-> 0, buffer_position |-> 0, buffer_size |-> 0,
     bg_index |-> 0, bg_colour |-> ZeroColour, aspect_ratio |-> 0,
     colour_table_size |-> 0, global_colours |-> FALSE,
     global_colour_table |-> <<>>, local_colour_table |-> <<>>,
     colour_table |-> "null",
     prev_frame |-> <<>>, prev_index |-> NSGIF_INVALID_FRAME,
     prev_width |-> 0, prev_height |-> 0]

---------------------------------------------------------------------------
(* src/utils/log.h : nsgif__process_frame (survey) and nsgif_initialise.   *)

\* nsgif__get_frame; ret is "OK", or "NULL" when realloc fails.
nsgif__get_frame(s, frame_idx) ==
    IF s.g.frame_holders > frame_idx THEN R("OK", 0, s)
    ELSE IF s.oom = "frames" THEN R("NULL", 0, s)
    ELSE
      LET fr == Grown(s.g.frames, frame_idx + 1)
          f == [UninitFrame EXCEPT
                  !.init = TRUE,
                  !.transparency = FALSE,
                  !.transparency_index = NSGIF_NO_TRANSPARENCY,
                  !.frame_pointer = s.g.buffer_position,
                  !.redraw_required = FALSE,
                  !.disposal_method = 0,
                  !.frame_delay = 100,
                  !.display = FALSE,
                  !.decoded = FALSE]
      IN R("OK", 0, [s EXCEPT !.g.frames = [fr EXCEPT ![frame_idx + 1] = f],
                              !.g.frame_holders = frame_idx + 1])

\* A survey of the image data that counts a frame and leaves it not
\* displayable.
parse_image_data_survey_hidden(s, frame_idx, pos) ==
    LET len == s.g.buffer_size - pos
        s1 == [s EXCEPT !.g.frame_count_partial = frame_idx + 1]
    IN \* switch (len)
       IF len >= 3 /\ D(s, pos) = NSGIF_TRAILER THEN R("OK", pos, s1)
       ELSE IF len = 2 /\ D(s, pos + 1) = NSGIF_TRAILER THEN R("OK", pos, s1)
       ELSE IF len \in {1, 2} /\ D(s, pos) = NSGIF_TRAILER THEN R("OK", pos, s1)
       ELSE IF len <= 2 THEN R("INSUFFICIENT_DATA", pos, s1)
       ELSE IF D(s, pos) >= LZW_CODE_MAX THEN R("DATA_ERROR", pos, s1)
       ELSE
         LET w == SkipImageBlocks(s, pos + 1, len - 1)
         IN IF w.k = "short" THEN R("INSUFFICIENT_DATA", pos, s1)
            ELSE IF w.k = "overrun"
            THEN R("OK", pos, [s1 EXCEPT !.e.overrun =
                                  [frame |-> frame_idx, left |-> w.len]])
            ELSE
              LET s2 == [SetF(s1, frame_idx,
                              [F(s1, frame_idx) EXCEPT !.display = FALSE])
                           EXCEPT !.g.frame_count = frame_idx + 1]
              IN IF w.len < 1 THEN R("INSUFFICIENT_DATA", w.p, s2)
                 ELSE IF D(s, w.p) = NSGIF_TRAILER THEN R("OK", w.p, s2)
                 ELSE R("WORKING", w.p, s2)

\* nsgif__parse_image_data with decode = false
nsgif__parse_image_data_survey(s, frame_idx, pos) ==
    LET len == s.g.buffer_size - pos
        s1 == [s EXCEPT !.g.frame_count_partial = frame_idx + 1]
    IN \* switch (len)
       IF len >= 3 /\ D(s, pos) = NSGIF_TRAILER THEN R("OK", pos, s1)
       ELSE IF len = 2 /\ D(s, pos + 1) = NSGIF_TRAILER THEN R("OK", pos, s1)
       ELSE IF len \in {1, 2} /\ D(s, pos) = NSGIF_TRAILER THEN R("OK", pos, s1)
       ELSE IF len <= 2 THEN R("INSUFFICIENT_DATA", pos, s1)
       ELSE IF D(s, pos) >= LZW_CODE_MAX THEN R("DATA_ERROR", pos, s1)
       ELSE
         LET w == SkipImageBlocks(s, pos + 1, len - 1)
         IN IF w.k = "short" THEN R("INSUFFICIENT_DATA", pos, s1)
            ELSE IF w.k = "overrun"
            THEN R("OK", pos, [s1 EXCEPT !.e.overrun =
                                  [frame |-> frame_idx, left |-> w.len]])
            ELSE
              LET s2 == [SetF(s1, frame_idx,
                              [F(s1, frame_idx) EXCEPT !.display = TRUE])
                           EXCEPT !.g.frame_count = frame_idx + 1]
              IN IF w.len < 1 THEN R("INSUFFICIENT_DATA", w.p, s2)
                 ELSE IF D(s, w.p) = NSGIF_TRAILER THEN R("OK", w.p, s2)
                 ELSE R("WORKING", w.p, s2)

\* nsgif__process_frame with decode = false
nsgif__process_frame_survey(s, frame_idx) ==
    LET cleanup(r) == R(r.ret, r.pos,
                        [r.s EXCEPT !.g.buffer_position = r.pos])
        table(r3) ==
            IF r3.ret # "OK" THEN r3
            ELSE nsgif__parse_image_data_survey(r3.s, frame_idx, r3.pos)
        descriptor(r2) ==
            IF r2.ret # "OK" THEN r2
            ELSE table(nsgif__parse_colour_table(r2.s, frame_idx, r2.pos,
                                                 FALSE))
        extensions(r1) ==
            IF r1.ret # "OK" THEN r1
            ELSE descriptor(nsgif__parse_image_descriptor(
                                r1.s, frame_idx, r1.pos, TRUE))
        frame(gf) ==
            IF gf.ret = "NULL" THEN R("INSUFFICIENT_MEMORY", 0, s)
            ELSE IF gf.s.g.buffer_position < gf.s.g.buffer_size
                    /\ D(gf.s, gf.s.g.buffer_position) = NSGIF_TRAILER
            THEN R("OK", gf.s.g.buffer_position, gf.s)
            ELSE IF frame_idx > MaxFrames
            THEN R("FRAME_DATA_ERROR", gf.s.g.buffer_position, gf.s)
            ELSE cleanup(extensions(nsgif__parse_frame_extensions(
                     gf.s, frame_idx, gf.s.g.buffer_position, TRUE)))
    IN frame(nsgif__get_frame(s, frame_idx))

\* A survey loop that is one frame behind: it surveys the last counted
\* frame again instead of the first unsurveyed one.
RECURSIVE survey_loop_behind(_)
survey_loop_behind(s) ==
    LET again(r) == IF r.ret = "WORKING" THEN survey_loop_behind(r.s) ELSE r
    IN again(nsgif__process_frame_survey(
                 s, IF s.g.frame_count > 0 THEN s.g.frame_count - 1 ELSE 0))

\* do { ret = nsgif__process_frame(gif, gif->frame_count, false); }
\* while (ret == NSGIF_WORKING);
RECURSIVE nsgif__survey_loop(_)
nsgif__survey_loop(s) ==
    LET again(r) == IF r.ret = "WORKING" THEN nsgif__survey_loop(r.s) ELSE r
    IN again(nsgif__process_frame_survey(s, s.g.frame_count))

\* A size quirk that knows the screen sizes and not the empty or oversized
\* ones.
SizeQuirkScreensOnly(w, h) ==
    \/ (w = 640 /\ h = 480) \/ (w = 640 /\ h = 512)
    \/ (w = 800 /\ h = 600) \/ (w = 1024 /\ h = 768)
    \/ (w = 1280 /\ h = 1024) \/ (w = 1600 /\ h = 1200)

\* The size quirk of nsgif_initialise / gif_initialise.
SizeQuirk(w, h) ==
    \/ (w = 640 /\ h = 480) \/ (w = 640 /\ h = 512)
    \/ (w = 800 /\ h = 600) \/ (w = 1024 /\ h = 768)
    \/ (w = 1280 /\ h = 1024) \/ (w = 1600 /\ h = 1200)
    \/ w = 0 \/ h = 0 \/ w > 2048 \/ h > 2048

\* strncmp(data, "GIF", 3) == 0
IsGifMagic(s, p) == D(s, p) = 71 /\ D(s, p + 1) = 73 /\ D(s, p + 2) = 70

\* nsgif__parse_header with strict = false
nsgif__parse_header(s, pos) ==
    IF s.g.buffer_size - pos < 6 THEN R("INSUFFICIENT_DATA", pos, s)
    ELSE IF ~IsGifMagic(s, pos) THEN R("DATA_ERROR", pos, s)
    ELSE R("OK", pos + 6, s)

\* nsgif__parse_logical_screen_descriptor
nsgif__parse_logical_screen_descriptor(s, pos) ==
    IF s.g.buffer_size - pos < 7 THEN R("INSUFFICIENT_DATA", pos, s)
    ELSE R("OK", pos + 7,
           [s EXCEPT !.g.width = U16(D(s, pos), D(s, pos + 1)),
                     !.g.height = U16(D(s, pos + 2), D(s, pos + 3)),
                     !.g.global_colours = Bit(D(s, pos + 4), 7),
                     !.g.colour_table_size = TableEntries(D(s, pos + 4)),
                     !.g.bg_index = D(s, pos + 5),
                     !.g.aspect_ratio = D(s, pos + 6),
                     !.g.loop_count = 1])

\* nsgif_initialise from "Do the colour map if we haven't already" to the
\* frame loop; nsgif_data is the local cursor.
nsgif_initialise_colours(s, nsgif_data) ==
    LET extracted(x) ==
            IF x.ret # "OK" THEN x
            ELSE R("OK", x.pos, [x.s EXCEPT !.g.buffer_position = x.pos])
        background(rc) ==
            IF rc.ret # "OK" THEN rc
            ELSE R("OK", rc.pos,
                   [rc.s EXCEPT !.g.bg_colour =
                       IF rc.s.g.global_colours
                          /\ rc.s.g.bg_index < rc.s.g.colour_table_size
                       THEN TableAt(rc.s.g.global_colour_table,
                                    rc.s.g.bg_index)
                       ELSE rc.s.g.global_colour_table[1]])
        lzw(r1) ==
            IF r1.ret # "OK" THEN r1
            ELSE IF ~r1.s.g.lzw_ctx /\ r1.s.oom = "lzw"
            THEN R("INSUFFICIENT_MEMORY", r1.pos, r1.s)
            ELSE R("GO", r1.pos, [r1.s EXCEPT !.g.lzw_ctx = TRUE])
    IN IF s.g.global_colour_table = <<>> THEN R("CRASH", 0, s)  \* NULL[0]
       ELSE lzw(
              IF s.g.global_colour_table[1] # NSGIF_PROCESS_COLOURS
              THEN R("OK", nsgif_data, s)
              ELSE background(
                     IF s.g.global_colours
                     THEN extracted(nsgif__colour_table_extract(
                              s, "global_colour_table",
                              s.g.colour_table_size, nsgif_data, TRUE))
                     ELSE R("OK", nsgif_data,
                            [s EXCEPT !.g.global_colour_table =
                                [@ EXCEPT ![1] = <<0, 0, 0, 255>>,
                                          ![2] = <<255, 255, 255, 255>>]])))

\* nsgif_initialise from "Do the colour map if we haven't already" on;
\* nsgif_data is the local cursor.
nsgif_initialise_rest(s, nsgif_data) ==
    LET survey(r1) == IF r1.ret # "GO" THEN r1 ELSE nsgif__survey_loop(r1.s)
    IN survey(nsgif_initialise_colours(s, nsgif_data))

\* nsgif_initialise up to "Do the colour map if we haven't already": ret
\* is "GO" with the local cursor in pos where the code goes on, else what
\* nsgif_initialise returns.
nsgif_initialise_header(s) ==
    LET tables(s4, pos) ==
            IF s4.g.buffer_size = s4.g.buffer_position + 1
               /\ D(s4, pos) = NSGIF_TRAILER
            THEN R("OK", pos, s4)
            ELSE R("GO", pos, s4)
        allocate(s3, pos) ==
            IF s3.oom = "tables"
            THEN R("INSUFFICIENT_MEMORY", pos, nsgif_finalise(s3))
            ELSE tables([s3 EXCEPT
                           !.g.local_colour_table = ZeroTable,
                           !.g.global_colour_table =
                               [ZeroTable EXCEPT
                                   ![1] = NSGIF_PROCESS_COLOURS]], pos)
        quirk(s2, pos) ==
            allocate(IF SizeQuirk(s2.g.width, s2.g.height)
                     THEN [s2 EXCEPT !.g.width = 1, !.g.height = 1]
                     ELSE s2, pos)
        screen(rl) ==
            IF rl.ret # "OK" THEN rl
            ELSE quirk([rl.s EXCEPT !.g.buffer_position = rl.pos], rl.pos)
        header(rh) ==
            IF rh.ret # "OK" THEN rh
            ELSE screen(nsgif__parse_logical_screen_descriptor(rh.s, rh.pos))
    IN IF s.g.buffer_position # 0 THEN R("GO", s.g.buffer_position, s)
       ELSE header(nsgif__parse_header(
                [s EXCEPT !.g.frame_image = 0,
                          !.g.frames = <<>>,
                          !.g.frame_holders = 0,
                          !.g.local_colour_table = <<>>,
                          !.g.global_colour_table = <<>>,
                          !.g.frame_count = 0,
                          !.g.frame_count_partial = 0,
                          !.g.decoded_frame = NSGIF_INVALID_FRAME], 0))

\* nsgif_initialise(gif, size, data)
nsgif_initialise(s0, size) ==
    LET rest(r) == IF r.ret # "GO" THEN r
                   ELSE nsgif_initialise_rest(r.s, r.pos)
    IN rest(nsgif_initialise_header([s0 EXCEPT !.g.buffer_size = size]))

---------------------------------------------------------------------------
(* src/src/libnsgif.c : gif_finalise, the survey pass of gif_initialise.   *)
(* The frame record's "virgin" flag is kept as its negation, decoded.      *)

\* gif_finalise
gif_finalise(s) ==
    LET s1 == IF s.g.frame_image # 0
              THEN bitmap_destroy(s, s.g.frame_image) ELSE s
    IN [s1 EXCEPT !.g.frame_image = 0,
                  !.g.frames = <<>>,
                  !.g.local_colour_table = <<>>,
                  !.g.global_colour_table = <<>>,
                  !.g.prev_frame = <<>>,
                  !.g.lzw_ctx = FALSE]

\* gif__parse_frame_extensions: works from gif->buffer_position and writes
\* it back on success.
gif__parse_frame_extensions(s, frame, decode) ==
    LET r == ExtLoop(s, frame, s.g.buffer_position, s.g.buffer_size, decode,
                     "INSUFFICIENT_FRAME_DATA")
    IN IF r.ret = "OK"
       THEN R("OK", r.pos, [r.s EXCEPT !.g.buffer_position = r.pos])
       ELSE R(r.ret, s.g.buffer_position, r.s)

\* An image descriptor that sets the canvas to the extent of the frame it
\* describes.
parse_image_descriptor_resizes(s, frame, decode) ==
    LET pos == s.g.buffer_position
        len == s.g.buffer_size - pos
        adv(w) == [w EXCEPT !.g.buffer_position =
                              @ + NSGIF_IMAGE_DESCRIPTOR_LEN]
    IN IF len < NSGIF_IMAGE_DESCRIPTOR_LEN
       THEN R("INSUFFICIENT_FRAME_DATA", pos, s)
       ELSE IF ~decode THEN R("OK", pos, adv(s))
       ELSE IF D(s, pos) # NSGIF_IMAGE_SEPARATOR
       THEN R("FRAME_DATA_ERROR", pos, s)
       ELSE
         LET x == U16(D(s, pos + 1), D(s, pos + 2))
             y == U16(D(s, pos + 3), D(s, pos + 4))
             w == U16(D(s, pos + 5), D(s, pos + 6))
             h == U16(D(s, pos + 7), D(s, pos + 8))
             f == [F(s, frame) EXCEPT !.flags = D(s, pos + 9),
                                      !.redraw = [x |-> x, y |-> y,
                                                  w |-> w, h |-> h]]
             s1 == [SetF(s, frame, f) EXCEPT
                      !.g.width = x + w,
                      !.g.height = y + h]
         IN R("OK", pos, adv(s1))

\* gif__parse_image_descriptor
gif__parse_image_descriptor(s, frame, decode) ==
    LET pos == s.g.buffer_position
        len == s.g.buffer_size - pos
        adv(w) == [w EXCEPT !.g.buffer_position =
                              @ + NSGIF_IMAGE_DESCRIPTOR_LEN]
    IN IF len < NSGIF_IMAGE_DESCRIPTOR_LEN
       THEN R("INSUFFICIENT_FRAME_DATA", pos, s)
       ELSE IF ~decode THEN R("OK", pos, adv(s))
       ELSE IF D(s, pos) # NSGIF_IMAGE_SEPARATOR
       THEN R("FRAME_DATA_ERROR", pos, s)
       ELSE
         LET x == U16(D(s, pos + 1), D(s, pos + 2))
             y == U16(D(s, pos + 3), D(s, pos + 4))
             w == U16(D(s, pos + 5), D(s, pos + 6))
             h == U16(D(s, pos + 7), D(s, pos + 8))
             f == [F(s, frame) EXCEPT !.flags = D(s, pos + 9),
                                      !.redraw = [x |-> x, y |-> y,
                                                  w |-> w, h |-> h]]
             \* Frame size may have grown.
             s1 == [SetF(s, frame, f) EXCEPT
                      !.g.width = IF x + w > @ THEN x + w ELSE @,
                      !.g.height = IF y + h > @ THEN y + h ELSE @]
         IN R("OK", pos, adv(s1))

\* gif__parse_colour_table
gif__parse_colour_table(s, frame, decode) ==
    LET pos == s.g.buffer_position
        len == s.g.buffer_size - pos
        colour_table_size == TableEntries(F(s, frame).flags)
    IN IF ~Bit(F(s, frame).flags, 7)
       THEN R("OK", pos, [s EXCEPT !.g.colour_table = "global"])
       ELSE IF len < colour_table_size * 3
       THEN R("INSUFFICIENT_FRAME_DATA", pos, s)
       ELSE
         LET s1 == IF decode
                   THEN [s EXCEPT !.g.local_colour_table =
                                      Extracted(s, @, colour_table_size, pos)]
                   ELSE s
         IN R("OK", pos,
              [s1 EXCEPT !.g.buffer_position = @ + colour_table_size * 3,
                         !.g.colour_table = "local"])

\* The sub-block walk that recovers from a block running off the end
\* with a single byte left as well.
RECURSIVE gif_skip_blocks_eager(_, _, _)
gif_skip_blocks_eager(s, p, gif_bytes) ==
    IF gif_bytes < 1 THEN [k |-> "short", p |-> p, len |-> gif_bytes]
    ELSE LET block_size == D(s, p) + 1
         IN IF gif_bytes - block_size < 0
            THEN [k |-> "recover", p |-> p, len |-> gif_bytes]
            ELSE IF block_size = 1
            THEN [k |-> "done", p |-> p + 1, len |-> gif_bytes - 1]
            ELSE gif_skip_blocks_eager(s, p + block_size,
                                       gif_bytes - block_size)

\* The sub-block walk of gif_initialise_frame: data at p, gif_bytes left.
\* "recover" is the block that runs off the end with two bytes or more
\* still there, "overrun" the one that runs off it with fewer.
RECURSIVE gif_skip_blocks(_, _, _)
gif_skip_blocks(s, p, gif_bytes) ==
    IF gif_bytes < 1 THEN [k |-> "short", p |-> p, len |-> gif_bytes]
    ELSE LET block_size == D(s, p) + 1
         IN IF gif_bytes - block_size < 0
            THEN IF gif_bytes >= 2
                 THEN [k |-> "recover", p |-> p, len |-> gif_bytes]
                 ELSE [k |-> "overrun", p |-> p, len |-> gif_bytes]
            ELSE IF block_size = 1
            THEN [k |-> "done", p |-> p + 1, len |-> gif_bytes - 1]
            ELSE gif_skip_blocks(s, p + block_size, gif_bytes - block_size)

\* data[p] = v
SetD(s, p, v) == [s EXCEPT !.d[p + 1] = v]

\* gif_initialise_frame once the sub-block walk w from p is done: the
\* recovery from a block that runs off the end, then the frame is counted.
gif_initialise_frame_walked(s3, frame, p, w) ==
    LET \* Try to recover by signaling the end of the gif.
        so == IF w.k \in {"recover", "overrun"}
              THEN [s3 EXCEPT !.e.overrun =
                      [frame |-> frame, left |-> w.len]]
              ELSE s3
        q == IF w.k = "recover" THEN w.p + 1 ELSE w.p
        left == IF w.k = "recover" THEN 1 ELSE w.len
        counted(s4) ==
            [SetF(s4, frame, [F(s4, frame) EXCEPT !.display = TRUE])
             EXCEPT !.g.buffer_position = q,
                    !.g.frame_count = frame + 1]
        ended(s5) ==
            IF left < 1 THEN R("INSUFFICIENT_FRAME_DATA", q, s5)
            ELSE IF D(s5, q) = NSGIF_TRAILER THEN R("OK", q, s5)
            ELSE R("WORKING", q, s5)
        walked(sx) ==
            IF w.k \in {"short", "overrun"}
            THEN R("INSUFFICIENT_FRAME_DATA", p, sx)
            ELSE ended(counted(IF w.k = "recover"
                               THEN SetD(SetD(sx, w.p, 0),
                                         w.p + 1, NSGIF_TRAILER)
                               ELSE sx))
    IN walked(so)

\* gif_initialise_frame from "Move our data onwards": the minimum code
\* size at the cursor, then the sub-blocks.
gif_initialise_frame_image(s, frame) ==
    LET p == s.g.buffer_position
        gif_bytes == s.g.buffer_size - p
        image(s3) ==
            IF gif_bytes < 1 THEN R("INSUFFICIENT_FRAME_DATA", p, s3)
            ELSE IF D(s3, p) >= LZW_CODE_MAX THEN R("DATA_ERROR", p, s3)
            ELSE gif_initialise_frame_walked(
                     s3, frame, p, gif_skip_blocks(s3, p + 1, gif_bytes - 1))
    IN image([s EXCEPT !.g.frame_count_partial = frame + 1])

\* gif_initialise_frame
gif_initialise_frame(s) ==
    LET frame == s.g.frame_count
        pos0 == s.g.buffer_position
        end == s.g.buffer_size
        holder(s1) ==
            \* Invalidate any previous decoding we have of this frame
            [SetF(s1, frame,
                  [F(s1, frame) EXCEPT
                     !.init = TRUE,
                     !.frame_pointer = pos0,
                     !.display = FALSE,
                     !.decoded = FALSE,          \* virgin = true
                     !.disposal_method = 0,
                     !.transparency = FALSE,
                     !.frame_delay = 100,
                     !.redraw_required = FALSE])
             EXCEPT !.g.decoded_frame =
                        IF @ = frame THEN NSGIF_INVALID_FRAME ELSE @]
        image(r3) ==
            IF r3.ret # "OK" THEN r3
            ELSE gif_initialise_frame_image(r3.s, frame)
        table(r2) ==
            IF r2.ret # "OK" THEN r2
            ELSE image(gif__parse_colour_table(r2.s, frame, FALSE))
        descriptor(r1) ==
            IF r1.ret # "OK" THEN r1
            ELSE table(gif__parse_image_descriptor(r1.s, frame, TRUE))
    IN IF end - pos0 > 0 /\ D(s, pos0) = NSGIF_TRAILER THEN R("OK", pos0, s)
       ELSE IF end - pos0 < 6 THEN R("INSUFFICIENT_DATA", pos0, s)
       ELSE IF frame > MaxFrames THEN R("FRAME_DATA_ERROR", pos0, s)
       ELSE IF s.g.frame_holders <= frame /\ s.oom = "frames"
       THEN R("INSUFFICIENT_MEMORY", pos0, s)
       ELSE descriptor(gif__parse_frame_extensions(
                holder(IF s.g.frame_holders <= frame
                       THEN [s EXCEPT !.g.frames = Grown(@, frame + 1),
                                      !.g.frame_holders = frame + 1]
                       ELSE s),
                frame, TRUE))

\* while ((ret = gif_initialise_frame(gif)) == GIF_WORKING);
RECURSIVE gif_survey_loop(_)
gif_survey_loop(s) ==
    LET again(r) == IF r.ret = "WORKING" THEN gif_survey_loop(r.s) ELSE r
    IN again(gif_initialise_frame(s))

\* gif_initialise from "Do the colour map if we haven't already" on;
\* gif_data is the local cursor.
gif_initialise_rest(s, gif_data) ==
    LET r1 ==
          IF s.g.global_colour_table[1] # NSGIF_PROCESS_COLOURS
          THEN R("OK", gif_data, s)
          ELSE IF s.g.global_colours
          THEN IF s.g.buffer_size
                    < s.g.colour_table_size * 3 + GIF_STANDARD_HEADER_SIZE
               THEN R("INSUFFICIENT_DATA", gif_data, s)
               ELSE R("OK", gif_data + 3 * s.g.colour_table_size,
                      [s EXCEPT
                         !.g.global_colour_table =
                             Extracted(s, @, s.g.colour_table_size, gif_data),
                         !.g.buffer_position =
                             gif_data + 3 * s.g.colour_table_size])
          ELSE R("OK", gif_data,
                 [s EXCEPT !.g.global_colour_table =
                     [@ EXCEPT ![1] = <<0, 0, 0, 255>>,
                               ![2] = <<255, 255, 255, 255>>]])
        \* If we didn't have some frames then a GIF_INSUFFICIENT_DATA
        \* becomes a GIF_INSUFFICIENT_FRAME_DATA
        surveyed(r) ==
            IF r.ret = "INSUFFICIENT_DATA" /\ r.s.g.frame_count_partial > 0
            THEN R("INSUFFICIENT_FRAME_DATA", r.pos, r.s)
            ELSE r
    IN IF r1.ret # "OK" THEN r1 ELSE surveyed(gif_survey_loop(r1.s))

\* gif_initialise up to "Do the colour map if we haven't already": ret is
\* "GO" with the local cursor in pos where the code goes on, else what
\* gif_initialise returns.
gif_initialise_header(s) ==
    LET header(s2) ==
            IF SizeQuirk(s2.g.width, s2.g.height)
            THEN [s2 EXCEPT !.g.width = 1, !.g.height = 1]
            ELSE s2
        tables(s3) ==
            [s3 EXCEPT !.g.local_colour_table = ZeroTable,
                       !.g.global_colour_table =
                           [ZeroTable EXCEPT ![1] = NSGIF_PROCESS_COLOURS]]
        holders(s4) ==
            IF s4.g.buffer_size = GIF_STANDARD_HEADER_SIZE + 1
            THEN IF D(s4, GIF_STANDARD_HEADER_SIZE) = NSGIF_TRAILER
                 THEN R("OK", 0, s4)
                 ELSE R("INSUFFICIENT_DATA", 0, s4)
            ELSE IF s4.oom = "frames"
            THEN R("INSUFFICIENT_MEMORY", 0, gif_finalise(s4))
            ELSE R("GO", GIF_STANDARD_HEADER_SIZE,
                   [s4 EXCEPT !.g.frames = <<UninitFrame>>,
                              !.g.frame_holders = 1,
                              !.g.buffer_position =
                                  GIF_STANDARD_HEADER_SIZE])
        allocate(s3) ==
            IF s3.oom = "tables"
            THEN R("INSUFFICIENT_MEMORY", 0, gif_finalise(s3))
            ELSE holders(tables(s3))
        magic(s1) ==
            IF ~IsGifMagic(s1, 0) THEN R("DATA_ERROR", 0, s1)
            ELSE allocate(header(
                     [s1 EXCEPT
                        !.g.width = U16(D(s, 6), D(s, 7)),
                        !.g.height = U16(D(s, 8), D(s, 9)),
                        !.g.global_colours = Bit(D(s, 10), 7),
                        !.g.colour_table_size = TableEntries(D(s, 10)),
                        !.g.bg_index = D(s, 11),
                        !.g.aspect_ratio = D(s, 12),
                        !.g.loop_count = 1]))
    IN IF s.g.buffer_size < GIF_STANDARD_HEADER_SIZE
       THEN R("INSUFFICIENT_DATA", 0, s)
       ELSE IF s.g.buffer_position # 0
       THEN R("GO", s.g.buffer_position, s)
       ELSE magic([s EXCEPT !.g.frame_image = 0,
                            !.g.frames = <<>>,
                            !.g.local_colour_table = <<>>,
                            !.g.global_colour_table = <<>>,
                            !.g.frame_count = 0,
                            !.g.frame_count_partial = 0,
                            !.g.decoded_frame = NSGIF_INVALID_FRAME])

\* gif_initialise(gif, size, data)
gif_initialise(s0, size) ==
    LET rest(r) == IF r.ret # "GO" THEN r
                   ELSE gif_initialise_rest(r.s, r.pos)
    IN IF ~s0.g.lzw_ctx /\ s0.oom = "lzw"
       THEN R("INSUFFICIENT_MEMORY", 0, [s0 EXCEPT !.g.buffer_size = size])
       ELSE rest(gif_initialise_header(
                     [s0 EXCEPT !.g.buffer_size = size,
                                !.g.lzw_ctx = TRUE]))

---------------------------------------------------------------------------
(* The LZW decoder (lzw.c is not part of the sources at hand; this is the  *)
(* decoder of the design document, section 4.1).  lzw_run is everything    *)
(* one initialised context yields: the index bytes in order and the status *)
(* that ends them.                                                         *)

\* The code bytes of the complete sub-blocks from p on, and how they end:
\* "term" at the zero-length block, "nodata" where a block leaves the source.
RECURSIVE lzw_blocks(_, _)
lzw_blocks(s, p) ==
    IF p >= s.g.buffer_size THEN [bytes |-> <<>>, end |-> "nodata"]
    ELSE LET n == D(s, p)
         IN IF n = 0 THEN [bytes |-> <<>>, end |-> "term"]
            ELSE IF p + 1 + n > s.g.buffer_size
            THEN [bytes |-> <<>>, end |-> "nodata"]
            ELSE LET rest == lzw_blocks(s, p + 1 + n)
                 IN [bytes |-> [k \in 1..n |-> D(s, p + k)] \o rest.bytes,
                     end |-> rest.end]

\* The code of the given width whose lowest bit is bit number bitpos.
RECURSIVE lzw_read_code(_, _, _)
lzw_read_code(bytes, bitpos, width) ==
    IF width = 0 THEN 0
    ELSE ((bytes[(bitpos \div 8) + 1] \div (2 ^ (bitpos % 8))) % 2)
         + 2 * lzw_read_code(bytes, bitpos + 1, width - 1)

\* The bytes of a code: a literal, or an entry of the dictionary, whose
\* first free code is eoi + 1.
lzw_entry(dict, eoi, code) ==
    IF code < eoi - 1 THEN <<code>> ELSE dict[code - eoi]

RECURSIVE lzw_step(_, _, _, _, _, _, _)
lzw_step(blocks, mcs, bitpos, width, dict, prev, out) ==
    LET clear == 2 ^ mcs
        eoi == clear + 1
        free == eoi + 1 + Len(dict)
    IN IF bitpos + width > 8 * Len(blocks.bytes)
       THEN [out |-> out,
             res |-> IF blocks.end = "term" THEN "LZW_OK_EOD"
                     ELSE "LZW_NO_DATA"]
       ELSE
         LET code == lzw_read_code(blocks.bytes, bitpos, width)
             nxt == bitpos + width
         IN IF code = clear
            THEN lzw_step(blocks, mcs, nxt, mcs + 1, <<>>, -1, out)
            ELSE IF code = eoi THEN [out |-> out, res |-> "LZW_OK_EOD"]
            ELSE IF prev = -1
            THEN IF code > clear
                 THEN [out |-> out, res |-> "LZW_BAD_ICODE"]
                 ELSE lzw_step(blocks, mcs, nxt, width, dict, code,
                               out \o <<code>>)
            ELSE IF code > free
            THEN [out |-> out, res |-> "LZW_BAD_CODE"]
            ELSE
              LET before == lzw_entry(dict, eoi, prev)
                  entry == IF code = free THEN before \o <<before[1]>>
                           ELSE lzw_entry(dict, eoi, code)
                  full == free >= LzwDictionary
                  dict2 == IF full THEN dict
                           ELSE Append(dict, before \o <<entry[1]>>)
                  width2 == IF ~full /\ free + 1 = 2 ^ width
                               /\ width < LzwMaxWidth
                            THEN width + 1 ELSE width
              IN lzw_step(blocks, mcs, nxt, width2, dict2, code,
                          out \o entry)

\* lzw_decode_init at the sub-block length at p, then lzw_decode or
\* lzw_decode_map to the end.
lzw_run(s, minimum_code_size, p) ==
    lzw_step(lzw_blocks(s, p), minimum_code_size, 0, minimum_code_size + 1,
             <<>>, -1, <<>>)

\* nsgif__error_from_lzw, gif_error_from_lzw
error_from_lzw(l_res, insuff) ==
    CASE l_res = "LZW_OK" -> "OK"
      [] l_res = "LZW_OK_EOD" -> "END_OF_FRAME"
      [] l_res = "LZW_NO_MEM" -> "INSUFFICIENT_MEMORY"
      [] l_res = "LZW_NO_DATA" -> insuff
      [] OTHER -> "FRAME_DATA_ERROR"

---------------------------------------------------------------------------
(* The canvas: the pixels of the embedder's bitmap, as the pointer that    *)
(* get_buffer returns.                                                     *)

Max(S) == CHOOSE m \in S : \A k \in S : k <= m

\* A run of stores cells = << <<index, colour>>, ... >> in order.  A store
\* outside the bitmap's width * height pixels is recorded in oob.
Stores(s, cells) ==
    LET hit(k) == {j \in 1..Len(cells) : cells[j][1] = k - 1}
    IN [s EXCEPT
          !.e.pix = [k \in 1..Len(@) |->
                        IF hit(k) = {} THEN @[k] ELSE cells[Max(hit(k))][2]],
          !.e.oob = @ \/ \E j \in 1..Len(cells) :
                            cells[j][1] < 0 \/ cells[j][1] >= Len(s.e.pix)]

\* The pixel at index i as a load sees it.
Pixel(s, i) == IF i >= 0 /\ i < Len(s.e.pix) THEN s.e.pix[i + 1]
               ELSE ZeroColour

\* memset / fill of count pixels from index from with one colour
Fill(s, from, count, colour) ==
    Stores(s, [k \in 1..count |-> <<from + k - 1, colour>>])

\* The point of a decode where the canvas is prepared and the frame's own
\* pixels are about to be written: the canvas as it is there is kept in
\* pre, whether a store has gone outside the bitmap by then in preoob, and
\* composed tells that the call came to this point.
Precomposed(s) ==
    [s EXCEPT !.e.pre = s.e.pix, !.e.preoob = s.e.oob, !.e.composed = TRUE]

---------------------------------------------------------------------------
(* src/utils/log.h : the decode pass of nsgif_decode_frame.                *)

\* A sprite initialisation that asks for a bitmap whether or not the
\* decoder has one.
initialise_sprite_always(s, width, height) ==
    LET b == bitmap_create(s, width, height)
    IN R(IF b.h = 0 THEN "INSUFFICIENT_MEMORY" ELSE "OK", 0,
         [b.s EXCEPT !.g.frame_image = b.h])

\* nsgif__initialise_sprite; ret "OK" or "INSUFFICIENT_MEMORY"
nsgif__initialise_sprite(s, width, height) ==
    IF s.g.frame_image # 0 THEN R("OK", 0, s)
    ELSE LET b == bitmap_create(s, width, height)
         IN R(IF b.h = 0 THEN "INSUFFICIENT_MEMORY" ELSE "OK", 0,
              [b.s EXCEPT !.g.frame_image = b.h])

\* nsgif__bitmap_get; ret "OK" with the buffer, or "NULL"
nsgif__bitmap_get(s) ==
    LET r == nsgif__initialise_sprite(s, s.g.width, s.g.height)
    IN IF r.ret # "OK" THEN R("NULL", 0, r.s)
       ELSE R("OK", 0, hook(r.s, "get_buffer", r.s.g.frame_image))

\* nsgif__record_frame
nsgif__record_frame(s) ==
    LET record(r) ==
            IF r.ret = "NULL" THEN r.s
            ELSE IF (r.s.g.prev_frame = <<>>
                     \/ r.s.g.width * r.s.g.height
                          > r.s.g.prev_width * r.s.g.prev_height)
                    /\ r.s.oom = "snapshot"
            THEN r.s
            ELSE [r.s EXCEPT
                    !.g.prev_frame =
                        [k \in 1..(r.s.g.width * r.s.g.height) |->
                            Pixel(r.s, k - 1)],
                    !.g.prev_width = r.s.g.width,
                    !.g.prev_height = r.s.g.height,
                    !.g.prev_index = r.s.g.decoded_frame,
                    !.e.oob = @ \/ r.s.g.width * r.s.g.height
                                     > Len(r.s.e.pix)]
    IN IF s.g.decoded_frame = NSGIF_INVALID_FRAME
          \/ s.g.decoded_frame = s.g.prev_index
       THEN s
       ELSE record(nsgif__bitmap_get(s))

\* nsgif__recover_frame
nsgif__recover_frame(s) ==
    LET height == Min(s.g.height, s.g.prev_height)
        width == Min(s.g.width, s.g.prev_width)
    IN IF s.g.prev_frame = <<>> THEN R("FRAME_DATA_ERROR", 0, s)
       ELSE R("OK", 0,
              Stores(s, [k \in 1..(width * height) |->
                  LET x == (k - 1) % width
                      y == (k - 1) \div width
                  IN <<y * s.g.width + x,
                       s.g.prev_frame[y * s.g.prev_width + x + 1]>>]))

\* A row step that takes the rows from top to bottom.
deinterlace_top_down(height, y, step) ==
    [more |-> y + 1 < height, y |-> y + 1, step |-> step]

\* nsgif__deinterlace; the row and step after, and whether there is a row
nsgif__deinterlace(height, y, step) ==
    LET y1 == y + (step % 16)
    IN IF y1 < height THEN [more |-> TRUE, y |-> y1, step |-> step]
       ELSE IF step = 24 /\ 4 < height
       THEN [more |-> TRUE, y |-> 4, step |-> 8]
       ELSE IF step \in {24, 8} /\ 2 < height
       THEN [more |-> TRUE, y |-> 2, step |-> 4]
       ELSE IF step \in {24, 8, 4} /\ 1 < height
       THEN [more |-> TRUE, y |-> 1, step |-> 2]
       ELSE [more |-> FALSE, y |-> y1, step |-> step]

\* nsgif__next_row
nsgif__next_row(interlace, height, y, step) ==
    IF ~interlace
    THEN [more |-> y + 1 # height, y |-> y + 1, step |-> step]
    ELSE nsgif__deinterlace(height, y, step)

\* The rows the do ... while (nsgif__next_row(...)) loop visits, in order.
RECURSIVE RowOrder(_, _, _, _)
RowOrder(interlace, height, y, step) ==
    LET n == nsgif__next_row(interlace, height, y, step)
    IN <<y>> \o (IF n.more THEN RowOrder(interlace, height, n.y, n.step)
                 ELSE <<>>)

\* gif__clip
gif__clip(frame_off, frame_dim, image_ext) ==
    IF frame_off + frame_dim <= image_ext THEN 0
    ELSE frame_off + frame_dim - image_ext

\* The stores of a run of index bytes src (first at from) through a colour
\* table, transparent indices left out: dest[k] is where the k-th goes.
Plotted(src, count, dest, transparency_index, table) ==
    LET all == [k \in 1..count |-> <<dest[k], TableAt(table, src[k])>>]
        keep == {k \in 1..count : transparency_index > 255
                                   \/ src[k] # transparency_index}
        RECURSIVE pick(_)
        pick(k) == IF k > count THEN <<>>
                   ELSE (IF k \in keep THEN <<all[k]>> ELSE <<>>)
                        \o pick(k + 1)
    IN pick(1)

\* The table gif->colour_table points at.
ColourTable(s) ==
    IF s.g.colour_table = "local" THEN s.g.local_colour_table
    ELSE s.g.global_colour_table

\* What a decode loop returns when the LZW output ends before the frame.
EndOfData(res, insuff) ==
    IF res = "LZW_OK_EOD" THEN "OK" ELSE error_from_lzw(res, insuff)

\* nsgif__decode_complex; datap is the source's data, the cursor at the minimum code size.
nsgif__decode_complex(s, width0, height0, offset_x, offset_y, interlace, datap, transparency_index) ==
    LET clip_x == gif__clip(offset_x, width0, s.g.width)
        clip_y == gif__clip(offset_y, height0, s.g.height)
        width == width0 - clip_x
        height == height0 - clip_y
    IN IF offset_x >= s.g.width \/ offset_y >= s.g.height THEN R("OK", 0, s)
       ELSE IF width = 0 \/ height = 0 THEN R("OK", 0, s)
       ELSE
         LET l == lzw_run(s, D(s, datap), datap + 1)
             rows == RowOrder(interlace, height, 0, 24)
             \* pixel k of the frame's clipped area, rows in decode order,
             \* is byte src(k) of the output, clip_x bytes jumped per row
             src(k) == ((k - 1) \div width) * width0 + ((k - 1) % width)
             dest(k) == offset_x + ((k - 1) % width)
                        + (rows[((k - 1) \div width) + 1] + offset_y)
                            * s.g.width
             want == {k \in 1..(width * height) : src(k) < Len(l.out)}
             count == Cardinality(want)
         IN R(IF Len(l.out) = 0 \/ count = width * height THEN "OK"
              ELSE EndOfData(l.res, "INSUFFICIENT_DATA"),
              0,
              Stores(s, Plotted([k \in 1..count |-> l.out[src(k) + 1]],
                                count, [k \in 1..count |-> dest(k)],
                                transparency_index,
                                ColourTable(s))))

\* nsgif__decode_simple
nsgif__decode_simple(s, height0, offset_y, datap, transparency_index) ==
    LET pixels == s.g.width * height0
        height == height0 - gif__clip(offset_y, height0, s.g.height)
    IN IF offset_y >= s.g.height THEN R("OK", 0, s)
       ELSE IF height = 0 THEN R("OK", 0, s)
       ELSE
         LET l == lzw_run(s, D(s, datap), datap + 1)
             count == Min(pixels, Len(l.out))
             dest(k) == offset_y * s.g.width + k - 1
         IN R(IF count = pixels THEN "OK"
              ELSE EndOfData(l.res, "INSUFFICIENT_DATA"),
              0,
              Stores(s, Plotted(l.out, count, [k \in 1..count |-> dest(k)],
                                transparency_index,
                                ColourTable(s))))

\* nsgif__decode
nsgif__decode(s, frame_idx, datap) ==
    LET frame == F(s, frame_idx)
        interlace == Bit(frame.flags, 6)
    IN IF ~interlace /\ frame.redraw.w = s.g.width /\ frame.redraw.x = 0
       THEN nsgif__decode_simple(s, frame.redraw.h, frame.redraw.y, datap,
                                 frame.transparency_index)
       ELSE nsgif__decode_complex(s, frame.redraw.w, frame.redraw.h,
                                  frame.redraw.x, frame.redraw.y, interlace,
                                  datap, frame.transparency_index)

\* nsgif__restore_bg(gif, NULL, bitmap)
nsgif__restore_bg_all(s) ==
    Fill(s, 0, s.g.width * s.g.height, NSGIF_TRANSPARENT_COLOUR)

\* nsgif__restore_bg(gif, frame, bitmap).  The clipped extents are
\* unsigned: a clip above the extent wraps to a run far beyond any bitmap.
nsgif__restore_bg(s, frame_idx) ==
    LET frame == F(s, frame_idx)
        clip_x == gif__clip(frame.redraw.x, frame.redraw.w, s.g.width)
        clip_y == gif__clip(frame.redraw.y, frame.redraw.h, s.g.height)
        width == frame.redraw.w - clip_x
        height == frame.redraw.h - clip_y
        colour == IF frame.transparency THEN NSGIF_TRANSPARENT_COLOUR
                  ELSE s.g.bg_colour
    IN IF ~frame.display \/ width = 0 \/ height = 0 THEN s
       ELSE IF width < 0 \/ height < 0 THEN [s EXCEPT !.e.oob = TRUE]
       ELSE Stores(s, [k \in 1..(width * height) |->
               <<frame.redraw.x + ((k - 1) % width)
                   + (frame.redraw.y + ((k - 1) \div width)) * s.g.width,
                 colour>>])

\* The post-decode hooks of nsgif__update_bitmap
nsgif__latch(s, frame_idx) ==
    LET h == s.g.frame_image
        s1 == hook(s, "modified", h)
        s2 == IF ~F(s1, frame_idx).decoded
              THEN SetF(hook(s1, "test_opaque", h), frame_idx,
                        [F(s1, frame_idx) EXCEPT !.opaque = s.opq,
                                                 !.decoded = TRUE])
              ELSE s1
    IN hook(s2, "set_opaque", h)

\* nsgif__update_bitmap
nsgif__update_bitmap(s0, frame_idx, datap) ==
    LET latch(r) == R(r.ret, datap, nsgif__latch(r.s, frame_idx))
        record(s1) ==
            IF F(s1, frame_idx).disposal_method = NSGIF_DISPOSAL_RESTORE_PREV
            THEN nsgif__record_frame(s1)
            ELSE s1
        recovered(s, rec) ==
            IF rec.ret = "OK" THEN rec.s
            ELSE nsgif__restore_bg(s, frame_idx - 1)
        dispose(s) ==
            IF frame_idx = 0 \/ s.g.decoded_frame = NSGIF_INVALID_FRAME
            THEN nsgif__restore_bg_all(s)
            ELSE IF F(s, frame_idx - 1).disposal_method
                      = NSGIF_DISPOSAL_RESTORE_BG
            THEN nsgif__restore_bg(s, frame_idx - 1)
            ELSE IF F(s, frame_idx - 1).disposal_method
                      = NSGIF_DISPOSAL_RESTORE_PREV
            THEN recovered(s, nsgif__recover_frame(s))
            ELSE s
        bitmap(b) ==
            IF b.ret = "NULL" THEN R("INSUFFICIENT_MEMORY", datap, b.s)
            ELSE latch(nsgif__decode(Precomposed(record(dispose(b.s))),
                                     frame_idx, datap))
    IN bitmap(nsgif__bitmap_get([s0 EXCEPT !.g.decoded_frame = frame_idx]))

\* nsgif__parse_image_data with decode = true
nsgif__parse_image_data_decode(s, frame_idx, pos) ==
    LET len == s.g.buffer_size - pos
    IN \* switch (len)
       IF len = 0 THEN R("INSUFFICIENT_DATA", pos, s)
       ELSE IF len = 1
       THEN IF D(s, pos) = NSGIF_TRAILER THEN R("OK", pos, s)
            ELSE R("INSUFFICIENT_DATA", pos, s)
       ELSE IF len = 2
       THEN IF D(s, pos + 1) = NSGIF_TRAILER \/ D(s, pos) = NSGIF_TRAILER
            THEN R("OK", pos, s)
            ELSE R("INSUFFICIENT_DATA", pos, s)
       ELSE IF D(s, pos) = NSGIF_TRAILER THEN R("OK", pos, s)
       ELSE IF D(s, pos) >= LZW_CODE_MAX THEN R("DATA_ERROR", pos, s)
       ELSE nsgif__update_bitmap(s, frame_idx, pos)

\* nsgif__process_frame with decode = true, that is nsgif_decode_frame.
\* A record whose fields were never stored (init is FALSE) holds
\* indeterminate values: s.ub picks what reading its display flag gives.
nsgif_decode_frame(s0, frame_idx) ==
    LET table(r3) ==
            IF r3.ret # "OK" THEN r3
            ELSE nsgif__parse_image_data_decode(r3.s, frame_idx, r3.pos)
        descriptor(r2) ==
            IF r2.ret # "OK" THEN r2
            ELSE table(nsgif__parse_colour_table(r2.s, frame_idx, r2.pos,
                                                 TRUE))
        extensions(r1) ==
            IF r1.ret # "OK" THEN r1
            ELSE descriptor(nsgif__parse_image_descriptor(
                                r1.s, frame_idx, r1.pos, FALSE))
        frame(s) ==
            IF ~F(s, frame_idx).init
            THEN IF s.ub = "false" THEN R("OK", 0, s) ELSE R("CRASH", 0, s)
            ELSE IF ~F(s, frame_idx).display THEN R("OK", 0, s)
            ELSE IF frame_idx > s.g.frame_count_partial
            THEN R("INSUFFICIENT_DATA", 0, s)
            ELSE IF frame_idx = s.g.decoded_frame THEN R("OK", 0, s)
            ELSE IF frame_idx > 0 /\ ~F(s, frame_idx - 1).init
                    /\ s.ub = "crash"
            THEN R("CRASH", 0, s)
            ELSE extensions(nsgif__parse_frame_extensions(
                     s, frame_idx, F(s, frame_idx).frame_pointer, FALSE))
        holder(g) ==
            IF g.ret = "NULL" THEN R("INSUFFICIENT_MEMORY", 0, g.s)
            ELSE frame(g.s)
    IN holder(nsgif__get_frame(s0, frame_idx))

---------------------------------------------------------------------------
(* src/src/libnsgif.c : the decode pass of gif_decode_frame.               *)

\* gif_initialise_sprite
gif_initialise_sprite(s, width, height) ==
    nsgif__initialise_sprite(s, width, height)

\* gif__record_previous_frame
gif__record_previous_frame(s) ==
    IF s.g.decoded_frame = NSGIF_INVALID_FRAME
       \/ s.g.decoded_frame = s.g.prev_index
    THEN s
    ELSE
      LET s1 == hook(s, "get_buffer", s.g.frame_image)
          need_alloc == s.g.prev_frame = <<>>
                        \/ s.g.width * s.g.height
                             > s.g.prev_width * s.g.prev_height
          count == s.g.width * s.g.height
      IN IF need_alloc /\ s.oom = "snapshot" THEN s1
         ELSE [s1 EXCEPT
                 !.g.prev_frame = [k \in 1..count |-> Pixel(s, k - 1)],
                 !.g.prev_width = s.g.width,
                 !.g.prev_height = s.g.height,
                 !.g.prev_index = s.g.decoded_frame,
                 !.e.oob = @ \/ count > Len(s.e.pix)]

\* gif__recover_previous_frame
gif__recover_previous_frame(s) ==
    IF s.g.prev_frame = <<>> THEN R("FRAME_DATA_ERROR", 0, s)
    ELSE nsgif__recover_frame(hook(s, "get_buffer", s.g.frame_image))

\* gif_interlaced_line
gif_interlaced_line(height, y) ==
    LET y1 == y - ((height + 7) \div 8)
        y2 == y1 - ((height + 3) \div 8)
        y3 == y2 - ((height + 1) \div 4)
    IN IF y * 8 < height THEN y * 8
       ELSE IF y1 * 8 < height - 4 THEN y1 * 8 + 4
       ELSE IF y2 * 4 < height - 2 THEN y2 * 4 + 2
       ELSE y3 * 2 + 1

\* frames[frame].transparency ? transparency_index : GIF_NO_TRANSPARENCY
TransparencyIndex(frame) ==
    IF frame.transparency THEN frame.transparency_index
    ELSE NSGIF_NO_TRANSPARENCY

\* gif__decode_complex; the LZW data starts at gif->buffer_position.
gif__decode_complex(s, frame, width, height, offset_x, offset_y, interlace, minimum_code_size, colour_table) ==
    LET l == lzw_run(s, minimum_code_size, s.g.buffer_position)
        count == Min(width * height, Len(l.out))
        decode_y(y) == (IF interlace THEN gif_interlaced_line(height, y)
                        ELSE y) + offset_y
        dest(k) == offset_x + ((k - 1) % width)
                   + decode_y((k - 1) \div width) * s.g.width
    IN R(IF count = width * height THEN "OK"
         ELSE EndOfData(l.res, "INSUFFICIENT_FRAME_DATA"),
         0,
         Stores(s, Plotted(l.out, count, [k \in 1..count |-> dest(k)],
                           TransparencyIndex(F(s, frame)),
                           IF colour_table = "local"
                           THEN s.g.local_colour_table
                           ELSE s.g.global_colour_table)))

\* gif__decode_simple
gif__decode_simple(s, frame, height, offset_y, minimum_code_size, colour_table) ==
    LET pixels == s.g.width * height
        l == lzw_run(s, minimum_code_size, s.g.buffer_position)
        count == Min(pixels, Len(l.out))
        dest(k) == offset_y * s.g.width + k - 1
    IN R(IF count = pixels THEN "OK"
         ELSE EndOfData(l.res, "INSUFFICIENT_FRAME_DATA"),
         0,
         Stores(s, Plotted(l.out, count, [k \in 1..count |-> dest(k)],
                           TransparencyIndex(F(s, frame)),
                           IF colour_table = "local"
                           THEN s.g.local_colour_table
                           ELSE s.g.global_colour_table)))

\* gif__decode
gif__decode(s, frame, width, height, offset_x, offset_y, interlace, minimum_code_size, colour_table) ==
    IF ~interlace /\ width = s.g.width /\ offset_x = 0
    THEN gif__decode_simple(s, frame, height, offset_y, minimum_code_size,
                            colour_table)
    ELSE gif__decode_complex(s, frame, width, height, offset_x, offset_y,
                             interlace, minimum_code_size, colour_table)

\* memset(p, colour, n): every byte of the run is the colour's low byte.
MemsetColour(colour) == <<colour[1], colour[1], colour[1], colour[1]>>

\* gif_clear_frame
gif_clear_frame(s, frame) ==
    LET save_buffer_position == s.g.buffer_position
        exit(r) == R(r.ret, 0, [r.s EXCEPT !.g.buffer_position =
                                             save_buffer_position])
        f == F(s, frame)
        colour(s3) ==
            IF f.transparency THEN MemsetColour(NSGIF_TRANSPARENT_COLOUR)
            ELSE MemsetColour(TableAt(ColourTable(s3), s.g.bg_index))
        clear(s3) ==
            IF s.g.buffer_size - s3.g.buffer_position < 1
            THEN R("INSUFFICIENT_FRAME_DATA", 0, s3)
            ELSE IF D(s, s3.g.buffer_position) = NSGIF_TRAILER
            THEN R("OK", 0, s3)
            ELSE R("OK", 0,
                   Stores(s3, [k \in 1..(f.redraw.w * f.redraw.h) |->
                       <<f.redraw.x + ((k - 1) % f.redraw.w)
                           + (f.redraw.y + ((k - 1) \div f.redraw.w))
                               * s.g.width,
                         colour(s3)>>]))
        table(r3) == IF r3.ret # "OK" THEN r3 ELSE clear(r3.s)
        descriptor(r2) ==
            IF r2.ret # "OK" THEN r2
            ELSE table(gif__parse_colour_table(r2.s, frame, TRUE))
        extensions(r1) ==
            IF r1.ret # "OK" THEN r1
            ELSE descriptor(gif__parse_image_descriptor(r1.s, frame, FALSE))
    IN IF ~f.display THEN R("OK", 0, s)
       ELSE exit(extensions(gif__parse_frame_extensions(
                     [s EXCEPT !.g.buffer_position = f.frame_pointer],
                     frame, FALSE)))

\* gif_decode_frame_exit without "Restore the buffer position": the cursor
\* stays where the decode left it.
decode_frame_exit_keeps_cursor(r, frame_idx, save_buffer_position) ==
    LET h == r.s.g.frame_image
        s1 == hook(r.s, "modified", h)
        s2 == IF ~F(s1, frame_idx).decoded
              THEN SetF(hook(s1, "test_opaque", h), frame_idx,
                        [F(s1, frame_idx) EXCEPT !.opaque = r.s.opq,
                                                 !.decoded = TRUE])
              ELSE s1
    IN R(r.ret, 0, hook(s2, "set_opaque", h))

\* The gif_decode_frame_exit label of gif_internal_decode_frame
gif_decode_frame_exit(r, frame_idx, save_buffer_position) ==
    LET h == r.s.g.frame_image
        s1 == hook(r.s, "modified", h)
        s2 == IF ~F(s1, frame_idx).decoded        \* virgin
              THEN SetF(hook(s1, "test_opaque", h), frame_idx,
                        [F(s1, frame_idx) EXCEPT !.opaque = r.s.opq,
                                                 !.decoded = TRUE])
              ELSE s1
    IN R(r.ret, 0, [hook(s2, "set_opaque", h) EXCEPT
                       !.g.buffer_position = save_buffer_position])

\* gif_internal_decode_frame from "Make sure we have a buffer to decode to"
\* on; gif_data is the cursor at the minimum code size.
gif_decode_body(s, frame_idx, gif_data, colour_table) ==
    LET gif_bytes == s.g.buffer_size - gif_data
        all(w) == Fill(w, 0, w.g.width * w.g.height, NSGIF_TRANSPARENT_COLOUR)
        decode(s3) ==
            gif__decode(s3, frame_idx,
                        F(s3, frame_idx).redraw.w, F(s3, frame_idx).redraw.h,
                        F(s3, frame_idx).redraw.x, F(s3, frame_idx).redraw.y,
                        Bit(F(s3, frame_idx).flags, 6), D(s3, gif_data),
                        colour_table)
        record(s1) ==
            IF F(s1, frame_idx).disposal_method = NSGIF_DISPOSAL_RESTORE_PREV
            THEN gif__record_previous_frame(s1)
            ELSE s1
        disposed(r) ==
            IF r.ret # "OK" THEN r
            ELSE decode(Precomposed([record(r.s) EXCEPT
                           !.g.decoded_frame = frame_idx,
                           !.g.buffer_position = gif_data + 1]))
        recovered(rec) ==
            R("OK", 0, IF rec.ret = "OK" THEN rec.s ELSE all(rec.s))
        dispose(sb) ==
            IF frame_idx = 0 \/ sb.g.decoded_frame = NSGIF_INVALID_FRAME
            THEN R("OK", 0, all(sb))
            ELSE IF F(sb, frame_idx - 1).disposal_method
                      = NSGIF_DISPOSAL_RESTORE_BG
            THEN gif_clear_frame(sb, frame_idx - 1)
            ELSE IF F(sb, frame_idx - 1).disposal_method
                      = NSGIF_DISPOSAL_RESTORE_PREV
            THEN recovered(gif__recover_previous_frame(sb))
            ELSE R("OK", 0, sb)
        buffer(sb) ==
            IF gif_bytes < 2 THEN R("INSUFFICIENT_FRAME_DATA", 0, sb)
            ELSE IF gif_bytes = 2 /\ D(s, gif_data + 1) = NSGIF_TRAILER
            THEN R("OK", 0, sb)
            ELSE disposed(dispose(sb))
        sprite(b) ==
            IF b.ret # "OK" THEN R("INSUFFICIENT_MEMORY", 0, b.s)
            ELSE buffer(hook(b.s, "get_buffer", b.s.g.frame_image))
    IN sprite(gif_initialise_sprite(s, s.g.width, s.g.height))

\* A decode that builds a frame the bitmap already holds again, from an
\* empty canvas.
decode_frame_rebuilds(s0, frame_idx) ==
    LET s == IF s0.g.decoded_frame = frame_idx
             THEN [s0 EXCEPT !.g.decoded_frame = NSGIF_INVALID_FRAME]
             ELSE s0
        save_buffer_position == s.g.buffer_position
        exit(r) == gif_decode_frame_exit(r, frame_idx, save_buffer_position)
        body(s3) ==
            IF s.g.buffer_size - s3.g.buffer_position < 1
            THEN R("INSUFFICIENT_FRAME_DATA", 0, s3)
            ELSE IF D(s, s3.g.buffer_position) = NSGIF_TRAILER
            THEN R("OK", 0, s3)
            ELSE gif_decode_body(s3, frame_idx, s3.g.buffer_position,
                                 s3.g.colour_table)
        table(r3) == IF r3.ret # "OK" THEN r3 ELSE exit(body(r3.s))
        descriptor(r2) ==
            IF r2.ret # "OK" THEN exit(r2)
            ELSE table(gif__parse_colour_table(r2.s, frame_idx, TRUE))
        extensions(r1) ==
            IF r1.ret # "OK" THEN exit(r1)
            ELSE descriptor(gif__parse_image_descriptor(r1.s, frame_idx,
                                                        FALSE))
    IN IF s.g.frames = <<>> THEN R("CRASH", 0, s)
       ELSE IF frame_idx >= s.g.frame_holders \/ ~F(s, frame_idx).init
       THEN IF s.ub = "false" THEN R("OK", 0, s) ELSE R("CRASH", 0, s)
       ELSE IF ~F(s, frame_idx).display THEN R("OK", 0, s)
       ELSE IF frame_idx > s.g.frame_count_partial
       THEN R("INSUFFICIENT_DATA", 0, s)
       ELSE IF frame_idx = s.g.decoded_frame THEN R("OK", 0, s)
       ELSE extensions(gif__parse_frame_extensions(
                [s EXCEPT !.g.buffer_position =
                            F(s, frame_idx).frame_pointer],
                frame_idx, FALSE))

\* gif_internal_decode_frame, that is gif_decode_frame.  frames[frame_idx]
\* is read unchecked: outside the array, or where nothing was stored, the
\* display flag is whatever the memory holds, and s.ub picks it.
gif_internal_decode_frame(s, frame_idx) ==
    LET save_buffer_position == s.g.buffer_position
        exit(r) == gif_decode_frame_exit(r, frame_idx, save_buffer_position)
        body(s3) ==
            IF s.g.buffer_size - s3.g.buffer_position < 1
            THEN R("INSUFFICIENT_FRAME_DATA", 0, s3)
            ELSE IF D(s, s3.g.buffer_position) = NSGIF_TRAILER
            THEN R("OK", 0, s3)
            ELSE gif_decode_body(s3, frame_idx, s3.g.buffer_position,
                                 s3.g.colour_table)
        table(r3) == IF r3.ret # "OK" THEN r3 ELSE exit(body(r3.s))
        descriptor(r2) ==
            IF r2.ret # "OK" THEN exit(r2)
            ELSE table(gif__parse_colour_table(r2.s, frame_idx, TRUE))
        extensions(r1) ==
            IF r1.ret # "OK" THEN exit(r1)
            ELSE descriptor(gif__parse_image_descriptor(r1.s, frame_idx,
                                                        FALSE))
    IN IF s.g.frames = <<>> THEN R("CRASH", 0, s)
       ELSE IF frame_idx >= s.g.frame_holders \/ ~F(s, frame_idx).init
       THEN IF s.ub = "false" THEN R("OK", 0, s) ELSE R("CRASH", 0, s)
       ELSE IF ~F(s, frame_idx).display THEN R("OK", 0, s)
       ELSE IF frame_idx > s.g.frame_count_partial
       THEN R("INSUFFICIENT_DATA", 0, s)
       ELSE IF frame_idx = s.g.decoded_frame THEN R("OK", 0, s)
       ELSE extensions(gif__parse_frame_extensions(
                [s EXCEPT !.g.buffer_position =
                            F(s, frame_idx).frame_pointer],
                frame_idx, FALSE))

---------------------------------------------------------------------------
(* The state machine.                                                      *)

\* The allocation the embedder's allocator refuses during one call, among
\* those the call can come to: DataScan creates the LZW context while there
\* is none and the colour tables while nothing is parsed, and grows the
\* frame array; FrameDecode grows the frame array (nsgif__get_frame) for
\* an index it holds no record of, creates the bitmap while there is
\* none, and takes a snapshot once a frame was decoded.
ScanOoms ==
    {"none", "frames"}
        \cup (IF gif.lzw_ctx THEN {} ELSE {"lzw"})
        \cup (IF gif.buffer_position = 0 THEN {"tables"} ELSE {})
DecodeOoms(i) ==
    {"none"}
        \cup (IF impl = "nsgif" /\ i >= gif.frame_holders
              THEN {"frames"} ELSE {})
        \cup (IF gif.frame_image = 0 THEN {"bitmap"} ELSE {})
        \cup (IF gif.decoded_frame # NSGIF_INVALID_FRAME
              THEN {"snapshot"} ELSE {})

\* No sub-block ran past the end of the buffer during the call.
NoOverrun == [frame |-> NSGIF_INVALID_FRAME, left |-> 0]

\* What a read of indeterminate memory comes to during one call.
UbChoices == {"crash", "false"}

\* Frame record k was stored by nsgif__get_frame / gif_initialise_frame.
Stored(k) == k < Len(gif.frames) /\ gif.frames[k + 1].init

\* A decode of frame i reads indeterminate memory only where record i or
\* the one before it was never stored.
UbAt(i) ==
    IF Stored(i) /\ (i = 0 \/ Stored(i - 1)) THEN {"crash"} ELSE UbChoices

\* What the embedder's test_opaque hook answers; the decoder asks it only
\* for a frame whose decoded latch is not set.
OpaqueAt(i) ==
    IF i < Len(gif.frames) /\ ~gif.frames[i + 1].decoded THEN BOOLEAN
    ELSE {FALSE}

\* The world one call starts in: the decoder, the source bytes, the
\* embedder (its record of hook calls cleared), and the call's inputs.
World(oom, opq, ub) ==
    [g |-> gif, d |-> data,
     e |-> [env EXCEPT !.hooks = {}, !.overrun = NoOverrun,
                       !.composed = FALSE],
     oom |-> oom, opq |-> opq, ub |-> ub]

\* The embedder before any call: no bitmap made, none destroyed.
\* The animation cursor of a new decoder: no frame prepared yet, no loop
\* completed, no frame handed out.
InitAnim == [frame |-> NSGIF_INVALID_FRAME, loop_count |-> 0, seq |-> <<>>]

\* No DataScan call under way.  at is where the call is: "frames" at the top
\* of the frame loop, "ext" at the top of the extension loop, "blocks" and
\* "image" at the top of the two sub-block loops, "ret" once it returned.
\* p is the loop's cursor, pos the cursor of nsgif__process_frame, ret the
\* code so far, ext and img the passes of the two sub-block loops made
\* during the call; g0 is the decoder as the frame loop's latest iteration
\* found it (ran: there was one).
NoWalk ==
    [at |-> "idle", p |-> 0, pos |-> 0, ret |-> "none", ext |-> 0, img |-> 0,
     ran |-> FALSE, g0 |-> nsgif_create]

\* No row loop under way.
NoLine == [height |-> 0, k |-> 0, y |-> 0, step |-> 24, rows |-> <<>>,
           more |-> FALSE]

InitEnv ==
    [made |-> 0, live |-> {}, destroyed |-> <<>>, hooks |-> {},
     w |-> 0, h |-> 0, pix |-> <<>>, oob |-> FALSE, overrun |-> NoOverrun,
     pre |-> <<>>, preoob |-> FALSE, composed |-> FALSE,
     crashed |-> FALSE, finalised |-> FALSE]

Init ==
    /\ impl \in {"nsgif", "gif"}
    /\ sid \in 1..Len(Streams)
    /\ gif = nsgif_create
    /\ data = Streams[sid]
    /\ env = InitEnv
    /\ last = [op |-> "create", arg |-> 0, ret |-> "OK", chain |-> TRUE,
               scan |-> "none"]
    /\ anim = InitAnim
    /\ line = NoLine
    /\ walk = NoWalk

Usable == ~env.crashed /\ ~env.finalised

\* The codes that ask for more source data.
Insufficient == {"INSUFFICIENT_DATA", "INSUFFICIENT_FRAME_DATA"}

\* The calls up to now were DataScan calls that returned OK or asked for
\* more data (so no allocation failed in them).
ChainSoFar ==
    /\ last.chain
    /\ \/ last.op = "create"
       \/ /\ last.op = "scan"
          /\ last.ret \in {"OK"} \cup Insufficient

\* The embedder's view of one call's outcome: what was called, with which
\* argument, and what came back; scan keeps what the latest DataScan
\* returned.
Commit(op, arg, r) ==
    /\ gif' = r.s.g
    /\ data' = r.s.d
    /\ env' = [r.s.e EXCEPT !.crashed = (r.ret = "CRASH")]
    /\ last' = [op |-> op, arg |-> arg, ret |-> r.ret, chain |-> ChainSoFar,
                scan |-> IF op = "scan" THEN r.ret ELSE last.scan]
    /\ UNCHANGED <<impl, sid, anim, line, walk>>

\* DataScan: nsgif_initialise / gif_initialise with the first size bytes.
Scan ==
    /\ Usable
    /\ \E size \in Cuts[sid], oom \in ScanOoms :
          /\ size >= gif.buffer_size
          /\ Commit("scan", size,
                 IF impl = "nsgif"
                 THEN nsgif_initialise(World(oom, FALSE, "crash"), size)
                 ELSE gif_initialise(World(oom, FALSE, "crash"), size))

\* FrameDecode: nsgif_decode_frame / gif_decode_frame of frame i.
Decode ==
    /\ Usable
    /\ \E i \in 0..MaxDecodeIdx :
       \E oom \in DecodeOoms(i), opq \in OpaqueAt(i), ub \in UbAt(i) :
          Commit("decode", i,
                 IF impl = "nsgif"
                 THEN nsgif_decode_frame(World(oom, opq, ub), i)
                 ELSE gif_internal_decode_frame(World(oom, opq, ub), i))

\* Destroy: nsgif_finalise / gif_finalise.
Finalise ==
    /\ Usable
    /\ LET w == World("none", FALSE, "crash")
           s == IF impl = "nsgif" THEN nsgif_finalise(w) ELSE gif_finalise(w)
       IN /\ gif' = s.g
          /\ data' = s.d
          /\ env' = [s.e EXCEPT !.finalised = TRUE]
          /\ last' = [op |-> "finalise", arg |-> 0, ret |-> "OK",
                      chain |-> ChainSoFar, scan |-> last.scan]
          /\ UNCHANGED <<impl, sid, anim, line, walk>>

Next == Scan \/ Decode \/ Finalise

Spec == Init /\ [][Next]_vars

---------------------------------------------------------------------------
(* Properties.                                                             *)

\* What the survey records of frame i (0-based) of decoder g.
FrameRecord(g, i) ==
    LET f == g.frames[i + 1]
    IN [offset |-> f.frame_pointer, rect |-> f.redraw,
        disposal |-> f.disposal_method, transparency |-> f.transparency,
        transparency_index |-> f.transparency_index,
        delay |-> f.frame_delay, displayable |-> f.display]

\* The step is a call of op that came back.
Returned(op) == last'.op = op /\ last'.ret # "CRASH" /\ vars' # vars

\* C1: a DataScan call, whatever it returns, never lowers frame_count and
\* leaves the record of every frame below the frame_count it started with
\* (offset, rectangle, disposal, transparency, delay, displayable) as it
\* was.
C1_ScanKeepsSurveyedFrames ==
    [][Returned("scan") =>
         /\ gif'.frame_count >= gif.frame_count
         /\ \A i \in 0..(gif.frame_count - 1) :
               /\ i < Len(gif'.frames)
               /\ FrameRecord(gif', i) = FrameRecord(gif, i)]_vars

\* C1's case: a scan that failed on a later frame after frame 0 had been
\* counted by an earlier scan.
C1_Witness ==
    /\ last.op = "scan"
    /\ last.ret = "FRAME_DATA_ERROR"
    /\ gif.frame_count = 1
    /\ F([g |-> gif], 0).display

\* DataScan of all of stream i by a fresh decoder of implementation im.
OneShot(im, i) ==
    LET w == [g |-> nsgif_create, d |-> Streams[i], e |-> InitEnv,
              oom |-> "none", opq |-> FALSE, ub |-> "crash"]
    IN IF im = "nsgif" THEN nsgif_initialise(w, Len(Streams[i]))
       ELSE gif_initialise(w, Len(Streams[i]))

\* The streams that are well-formed GIFs.
WellFormed == {1, 2, 4, 5, 6}

\* The last call closed a chain of DataScan calls on growing prefixes of a
\* well-formed stream with the full stream.
FullAfterChain ==
    /\ last.chain
    /\ last.op = "scan"
    /\ last.ret # "INSUFFICIENT_MEMORY"
    /\ last.arg = Len(Streams[sid])
    /\ sid \in WellFormed

\* C2: a well-formed stream fed through a chain of growing prefixes, each
\* DataScan returning OK or asking for more data, and then in full, ends
\* with the return code, frame_count and frame records of one DataScan of
\* the full stream.
C2_ChainEqualsOneShot ==
    FullAfterChain =>
        LET same(one) ==
                /\ last.ret = one.ret
                /\ gif.frame_count = one.s.g.frame_count
                /\ \A i \in 0..(gif.frame_count - 1) :
                      FrameRecord(gif, i) = FrameRecord(one.s.g, i)
        IN same(OneShot(impl, sid))

\* C2's case: the full stream of two frames, scanned after a scan that
\* stopped inside the second frame's local colour table.
C2_Reached ==
    /\ FullAfterChain
    /\ sid = 2
    /\ gif.frame_count = 1
    /\ gif.buffer_position = 65

ImageDataAt(i) ==
    LET table(r3) == IF r3.ret = "OK" THEN r3.pos ELSE -1
        descriptor(w, r2) ==
            IF r2.ret # "OK" THEN -1
            ELSE table(nsgif__parse_colour_table(w, i, r2.pos, FALSE))
        extensions(w, r1) ==
            IF r1.ret # "OK" THEN -1
            ELSE descriptor(w, nsgif__parse_image_descriptor(w, i, r1.pos,
                                                             FALSE))
        at(w) ==
            IF i >= w.g.frame_count THEN -1
            ELSE extensions(w, nsgif__parse_frame_extensions(w, i,
                                   F(w, i).frame_pointer, FALSE))
    IN at(OneShot("nsgif", sid).s)

\* The position of the block terminator of the sub-block chain at p in
\* the bytes d; -1 if the chain leaves d.
RECURSIVE TerminatorOf(_, _)
TerminatorOf(d, p) ==
    IF p < 0 \/ p >= Len(d) THEN -1
    ELSE IF d[p + 1] = 0 THEN p
    ELSE TerminatorOf(d, p + d[p + 1] + 1)

\* The sub-block chain of frame i in the bytes d, terminator included,
\* lies within the first gif.buffer_size bytes.
ChainInBuffer(d, i) ==
    LET inside(t) == t >= 0 /\ t < gif.buffer_size
        chain(m) == m >= 0 /\ inside(TerminatorOf(d, m + 1))
    IN chain(ImageDataAt(i))

ScanState(g) ==
    [cursor |-> g.buffer_position, frame_count |-> g.frame_count,
     frame_count_partial |-> g.frame_count_partial,
     records |-> [k \in 1..Len(g.frames) |-> FrameRecord(g, k - 1)],
     width |-> g.width, height |-> g.height, loop_max |-> g.loop_count]

\* C5: a second DataScan with the (data, size) of the one before, no
\* allocation failing in either, returns what that one returned and leaves
\* the parse cursor, the frame counts, the frame records, the canvas size
\* and loop-max as that one left them.
C5_RescanIsIdempotent ==
    [][(/\ last.op = "scan" /\ last'.op = "scan"
        /\ last'.arg = last.arg
        /\ last.ret \notin {"CRASH", "INSUFFICIENT_MEMORY"}
        /\ last'.ret \notin {"CRASH", "INSUFFICIENT_MEMORY"})
       => /\ last'.ret = last.ret
          /\ ScanState(gif') = ScanState(gif)]_vars

\* What C6 lists of a decoder g.
DecoderState(g) ==
    [scan |-> ScanState(g),
     global_colour_table |-> g.global_colour_table,
     local_colour_table |-> g.local_colour_table,
     decoded_frame |-> g.decoded_frame]

\* C6: a DataScan or FrameDecode that returns InsufficientMemory leaves
\* the parse cursor, the frame counts, the frame records, the colour
\* tables and the currently-decoded frame index as they were before it.
C6_OutOfMemoryChangesNothing ==
    [][(last'.op \in {"scan", "decode"}
        /\ last'.ret = "INSUFFICIENT_MEMORY")
       => DecoderState(gif') = DecoderState(gif)]_vars

\* The decoded latch and the latched opacity of every frame record of g.
Latches(g) ==
    [k \in 1..Len(g.frames) |->
        [decoded |-> g.frames[k].decoded, opaque |-> g.frames[k].opaque]]

\* C7: a FrameDecode that returns an error leaves the decoded latch and
\* the latched opacity of every frame record as they were before it.
C7_FailedDecodeKeepsLatches ==
    [][(last'.op = "decode" /\ last'.ret \notin {"OK", "CRASH"})
       => Latches(gif') = Latches(gif)]_vars

\* C8: a FrameDecode of an index that has not been surveyed returns an
\* error, and leaves the frame records, the canvas and the
\* currently-decoded frame index as they were before it.
C8_UnsurveyedIndexIsRefused ==
    [][(last'.op = "decode" /\ last'.arg >= gif.frame_count_partial)
       => /\ last'.ret \notin {"OK", "CRASH"}
          /\ gif'.frames = gif.frames
          /\ env'.pix = env.pix
          /\ gif'.decoded_frame = gif.decoded_frame]_vars

\* C9: at most one bitmap is live; a DataScan never calls the create
\* callback; no call creates a bitmap while one exists, or more than one;
\* and the first FrameDecode that composites a frame creates one.
C9_OneBitmapLive ==
    [][/\ Cardinality(env'.live) <= 1
       /\ last'.op = "scan" => env'.made = env.made
       /\ env'.made <= env.made + 1
       /\ env.live # {} => env'.made = env.made
       /\ (/\ last'.op = "decode" /\ last'.ret = "OK"
           /\ gif'.decoded_frame = last'.arg
           /\ gif.decoded_frame # last'.arg
           /\ env.made = 0)
          => env'.made = 1 /\ env'.live = {1}]_vars

\* C9's case: the second frame was composited after the first, on the
\* bitmap the first decode created.
C9_Witness ==
    /\ last.op = "decode"
    /\ gif.decoded_frame = 1
    /\ gif.prev_index = 0
    /\ env.made = 1
    /\ env.live = {1}

\* The number of times handle h was passed to the destroy callback.
Destroyed(e, h) ==
    Cardinality({k \in 1..Len(e.destroyed) : e.destroyed[k] = h})

\* C10: Destroy calls the destroy callback once if the decoder holds a
\* bitmap and not at all otherwise; after it every handle ever created has
\* been destroyed exactly once, and the decoder owns no frame index, no
\* colour table, no previous-frame snapshot and no LZW context.
C10_DestroyReleasesAll ==
    [][(~env.finalised /\ env'.finalised)
       => /\ Len(env'.destroyed) - Len(env.destroyed)
               = Cardinality(env.live)
          /\ \A h \in 1..env'.made : Destroyed(env', h) = 1
          /\ env'.live = {}
          /\ gif'.frame_image = 0
          /\ gif'.frames = <<>>
          /\ gif'.global_colour_table = <<>>
          /\ gif'.local_colour_table = <<>>
          /\ gif'.prev_frame = <<>>
          /\ ~gif'.lzw_ctx]_vars

\* C10's case: Destroy after a FrameDecode that returned an error, with a
\* bitmap created and a snapshot taken.
C10_Witness ==
    /\ env.finalised
    /\ last.op = "finalise"
    /\ env.destroyed = <<1>>
    /\ gif.prev_index = 0

\* Where the image data of each frame of each stream ends (the offset
\* after its block terminator).
FrameEnds ==
    << {34}, {42, 77}, {27}, {}, {34, 57, 72}, {42, 65, 80}, {34} >>

\* The number of frames of the stream that lie wholly before offset p.
FramesBefore(p) == Cardinality({e \in FrameEnds[sid] : e <= p})

\* The offsets in each stream where a frame should start and the byte is
\* neither an image separator, an extension introducer nor the trailer.
BadSeparators == << {}, {}, {}, {}, {}, {}, {34} >>

\* The survey of decoder g stands at such a byte of d and has the ten
\* bytes of an image descriptor from there.
AtBadSeparator(g, d) ==
    /\ g.buffer_position \in BadSeparators[sid]
    /\ g.buffer_position + NSGIF_IMAGE_DESCRIPTOR_LEN <= g.buffer_size
    /\ d[g.buffer_position + 1]
          \notin {NSGIF_IMAGE_SEPARATOR, GIF_EXT_INTRODUCER, NSGIF_TRAILER}

\* C11: a DataScan that stops at a byte other than 0x2C where the image
\* separator of frame k is expected returns a frame data error with
\* frame_count the number of frames surveyed before k, and from then on
\* FrameDecode of every index below frame_count returns OK (unless an
\* allocation fails in it).
C11_BadSeparatorKeepsEarlierFrames ==
    [][/\ (last'.op = "scan" /\ last'.ret # "INSUFFICIENT_MEMORY"
             /\ ~env'.crashed /\ AtBadSeparator(gif', data'))
          => /\ last'.ret = "FRAME_DATA_ERROR"
             /\ gif'.frame_count = FramesBefore(gif'.buffer_position)
       /\ (last.scan = "FRAME_DATA_ERROR" /\ AtBadSeparator(gif, data)
             /\ last'.op = "decode" /\ last'.arg < gif.frame_count
             /\ last'.ret # "INSUFFICIENT_MEMORY")
          => last'.ret = "OK"]_vars

\* C12: after a survey the canvas covers every surveyed frame: for each
\* frame i < frame_count, x + w <= canvas width and y + h <= canvas height.
C12_CanvasCoversFrames ==
    (Usable /\ last.op = "scan") =>
        \A i \in 0..(gif.frame_count - 1) :
            /\ i < Len(gif.frames)
            /\ gif.frames[i + 1].redraw.x + gif.frames[i + 1].redraw.w
                  <= gif.width
            /\ gif.frames[i + 1].redraw.y + gif.frames[i + 1].redraw.h
                  <= gif.height

\* The logical screen descriptor of decoder g has been parsed.
ScreenParsed(g) == g.buffer_position >= GIF_STANDARD_HEADER_SIZE

\* C13: once the logical screen descriptor has been parsed, no DataScan or
\* FrameDecode call lowers the canvas width or the canvas height.
C13_CanvasNeverShrinks ==
    [][(ScreenParsed(gif) /\ last'.op \in {"scan", "decode"})
          => /\ gif'.width >= gif.width
             /\ gif'.height >= gif.height]_vars

\* C13's case: a DataScan call grew the canvas beyond the first frame, and
\* a narrower frame was surveyed and decoded after that.
C13_Witness ==
    /\ Usable
    /\ ScreenParsed(gif)
    /\ gif.frame_count = 3
    /\ gif.width > U16(data[7], data[8])
    /\ gif.width > gif.frames[3].redraw.x + gif.frames[3].redraw.w
    /\ last.op = "decode" /\ last.arg = 2 /\ last.ret = "OK"
    /\ env.composed

---------------------------------------------------------------------------
(* The logical screen descriptor: streams of a header, a logical screen    *)
(* descriptor of every size in ScreenSizes x ScreenSizes, and the trailer. *)

\* The widths and heights the logical screen descriptor is tried with.
ScreenSizes ==
    {0, 1, 480, 512, 600, 640, 768, 800, 1024, 1200, 1280, 1600, 2048,
     2049}

\* StreamEmpty with the logical screen size w x h.
ScreenStream(w, h) ==
    <<71, 73, 70, 56, 57, 97, w % 256, w \div 256, h % 256, h \div 256,
      0, 0, 0, 59>>

InitScreen ==
    /\ impl \in {"nsgif", "gif"}
    /\ sid = 4
    /\ gif = nsgif_create
    /\ \E w \in ScreenSizes, h \in ScreenSizes : data = ScreenStream(w, h)
    /\ env = InitEnv
    /\ last = [op |-> "create", arg |-> 0, ret |-> "OK", chain |-> TRUE,
               scan |-> "none"]
    /\ anim = InitAnim
    /\ line = NoLine
    /\ walk = NoWalk

SpecScreen == InitScreen /\ [][Next]_vars

\* The sizes the logical screen descriptor of the stream gives.
ScreenWidth == data[7] + 256 * data[8]
ScreenHeight == data[9] + 256 * data[10]

\* The screen sizes that are not taken at their word.
DistrustedSizes ==
    {<<640, 480>>, <<640, 512>>, <<800, 600>>, <<1024, 768>>,
     <<1280, 1024>>, <<1600, 1200>>}

---------------------------------------------------------------------------
(* Properties of whole, well-formed streams (checked under Spec).          *)

\* C15: one DataScan of the whole of a well-formed stream (header, logical
\* screen descriptor, optional global colour table, N >= 0 complete frames,
\* trailer), made on a new decoder, returns OK with frame_count =
\* frame_count_partial = N and every frame displayable (unless an
\* allocation fails in it); N = 0 for the header followed by the trailer.
C15_WholeStreamSurveyed ==
    [][(last.op = "create" /\ last'.op = "scan"
          /\ sid \in WellFormed /\ last'.arg = Len(Streams[sid])
          /\ last'.ret # "INSUFFICIENT_MEMORY")
          => /\ last'.ret = "OK"
             /\ gif'.frame_count = Cardinality(FrameEnds[sid])
             /\ gif'.frame_count_partial = Cardinality(FrameEnds[sid])
             /\ Len(gif'.frames) >= gif'.frame_count
             /\ \A i \in 1..gif'.frame_count : gif'.frames[i].display]_vars

\* C15's cases: the three-frame stream and the stream without frames,
\* each surveyed by one DataScan of the whole stream.
C15_Witness ==
    /\ last.op = "scan" /\ last.chain /\ last.ret = "OK"
    /\ last.arg = Len(Streams[sid])
    /\ \/ sid = 5 /\ gif.frame_count = 3 /\ gif.frames[3].display
       \/ sid = 4 /\ gif.frame_count = 0

\* C16: a FrameDecode(i) made immediately after a FrameDecode(i) that
\* returned OK returns OK and leaves the bitmap's bytes as they were, for
\* every frame i the survey has counted and stored the records up to.
C16_DecodeTwiceIsStable ==
    [][(last.op = "decode" /\ last.ret = "OK" /\ last.arg < gif.frame_count
          /\ (\A k \in 0..last.arg : Stored(k))
          /\ last'.op = "decode" /\ last'.arg = last.arg)
          => /\ last'.ret = "OK"
             /\ env'.pix = env.pix]_vars

\* C16's case: a FrameDecode of frame 1, which the bitmap already holds
\* from the call before, came back OK without compositing.
C16_Witness ==
    /\ Usable
    /\ last.op = "decode" /\ last.ret = "OK" /\ last.arg = 1
    /\ gif.decoded_frame = 1
    /\ gif.frame_count >= 2
    /\ \A k \in 0..1 : Stored(k) /\ gif.frames[k + 1].decoded
    /\ ~env.composed
    /\ env.pix # <<>>

---------------------------------------------------------------------------
(* Frame preparation.  nsgif_frame_prepare and nsgif_reset are declared in *)
(* include/nsgif.h and called by test/decode_gif.c, but their bodies are   *)
(* not among the sources: the two operations below follow the description  *)
(* of the embedder operations.  What they read, the frame count and the    *)
(* loop maximum, is what the survey modelled above left in the decoder.    *)
(***************************************************************************)

\* How many FramePrepare calls a behaviour makes between two resets.
MaxPrepares == 7

\* The loop maxima the NETSCAPE2.0 extension of a stream asks for (0 means
\* loop forever).
LoopMaxes == {0, 2, 3}

\* The application extension that sets the loop maximum to n.
NetscapeExt(n) ==
    <<33, 255, 11>> \o NetscapeId \o <<3, 1, n % 256, n \div 256, 0>>

\* StreamAnim with that extension in front of its first frame.
LoopStream(n) ==
    SubSeq(StreamAnim, 1, 19) \o NetscapeExt(n)
        \o SubSeq(StreamAnim, 20, Len(StreamAnim))

\* The streams an animation is played from: one, two and three frames with
\* the default loop maximum, and two frames with an explicit one.
PlayStreams(id) ==
    {Streams[id]} \cup (IF id = 2 THEN {LoopStream(n) : n \in LoopMaxes} ELSE {})

\* What one FramePrepare call hands back.
Prepared(ret, frame) == [ret |-> ret, frame |-> frame]

\* nsgif_frame_prepare: the frame after the cursor, or frame 0 again with
\* one more loop counted; an animation whose loops are used up is complete
\* and stays so.
nsgif_frame_prepare(g, a) ==
    LET next == IF a.frame = NSGIF_INVALID_FRAME THEN 0 ELSE a.frame + 1
        wrap == next >= g.frame_count
    IN IF wrap /\ g.loop_count # 0 /\ a.loop_count + 1 >= g.loop_count
       THEN [ret |-> "ANIMATION_END", frame |-> NSGIF_INVALID_FRAME, a |-> a]
       ELSE IF wrap
       THEN [ret |-> "OK", frame |-> 0,
             a |-> [a EXCEPT !.frame = 0, !.loop_count = a.loop_count + 1]]
       ELSE [ret |-> "OK", frame |-> next, a |-> [a EXCEPT !.frame = next]]

\* nsgif_reset: back to the start of the animation.
nsgif_reset(g) == [g EXCEPT !.decoded_frame = NSGIF_INVALID_FRAME]

\* FramePrepare on a decoder whose survey has found a frame.
Prepare ==
    /\ Usable
    /\ gif.frame_count > 0
    /\ Len(anim.seq) < MaxPrepares
    /\ LET r == nsgif_frame_prepare(gif, anim)
       IN /\ anim' = [r.a EXCEPT !.seq = Append(anim.seq,
                                                Prepared(r.ret, r.frame))]
          /\ last' = [op |-> "prepare", arg |-> r.frame, ret |-> r.ret,
                      chain |-> ChainSoFar, scan |-> last.scan]
          /\ env' = [env EXCEPT !.composed = FALSE]
          /\ UNCHANGED <<impl, sid, gif, data, line, walk>>

\* Reset.
Reset ==
    /\ Usable
    /\ gif' = nsgif_reset(gif)
    /\ anim' = InitAnim
    /\ last' = [op |-> "reset", arg |-> 0, ret |-> "OK",
                chain |-> ChainSoFar, scan |-> last.scan]
    /\ env' = [env EXCEPT !.composed = FALSE]
    /\ UNCHANGED <<impl, sid, data, line, walk>>

\* DataScan of the whole stream, as test/decode_gif.c makes it.
ScanAll ==
    /\ Usable
    /\ Commit("scan", Len(data),
              nsgif_initialise(World("none", FALSE, "crash"), Len(data)))

\* FrameDecode of the frame FramePrepare just handed out.
DecodePrepared ==
    /\ Usable
    /\ last.op = "prepare" /\ last.ret = "OK"
    /\ \E opq \in OpaqueAt(anim.frame) :
          Commit("decode", anim.frame,
                 nsgif_decode_frame(World("none", opq, "crash"), anim.frame))

InitPlay ==
    /\ impl = "nsgif"
    /\ sid \in {1, 2, 5}
    /\ gif = nsgif_create
    /\ data \in PlayStreams(sid)
    /\ env = InitEnv
    /\ last = [op |-> "create", arg |-> 0, ret |-> "OK", chain |-> TRUE,
               scan |-> "none"]
    /\ anim = InitAnim
    /\ line = NoLine
    /\ walk = NoWalk

NextPlay == ScanAll \/ Prepare \/ DecodePrepared \/ Reset

SpecPlay == InitPlay /\ [][NextPlay]_vars

\* The loop maximum a stream asks for: the NETSCAPE2.0 value when it has
\* the extension, one play otherwise.
LoopMaxOf(d) ==
    IF SubSeq(d, 20, 22) = <<33, 255, 11>> THEN U16(d[36], d[37]) ELSE 1

\* The first k answers of an animation of n frames with loop maximum lm:
\* 0 .. n-1 over and over, lm times when lm is finite, and
\* NSGIF_ERR_ANIMATION_END from then on.
PlaySeq(n, lm, k) ==
    [j \in 1..k |-> IF lm # 0 /\ j - 1 >= n * lm
                    THEN Prepared("ANIMATION_END", NSGIF_INVALID_FRAME)
                    ELSE Prepared("OK", (j - 1) % n)]

\* C17: the answers of successive FramePrepare calls are the frame indices
\* 0, 1, .., frame_count-1 in order, then 0 again with the loop counter
\* one higher at every wrap, and AnimationComplete once a finite loop
\* maximum is used up (two frames, loop maximum 1: 0, 1, AnimationComplete).
C17_PrepareOrder ==
    LET n == Cardinality(FrameEnds[sid])
        k == Len(anim.seq)
    IN /\ anim.seq = PlaySeq(n, LoopMaxOf(data), k)
       /\ (k > 0 /\ anim.seq[k].ret = "OK")
             => anim.loop_count = (k - 1) \div n

\* C17's case: the two-frame animation without a loop extension has
\* answered 0, 1 and then AnimationComplete.
C17_Witness ==
    /\ data = StreamAnim
    /\ gif.frame_count = 2 /\ gif.loop_count = 1
    /\ last.op = "prepare" /\ last.ret = "ANIMATION_END"
    /\ anim.seq = <<Prepared("OK", 0), Prepared("OK", 1),
                    Prepared("ANIMATION_END", NSGIF_INVALID_FRAME)>>

---------------------------------------------------------------------------
(* Pre-compose: the canvas a frame's pixels are written onto.              *)
(***************************************************************************)

\* Every pixel of the canvas c is transparent black.
Cleared(c) == \A p \in DOMAIN c : c[p] = NSGIF_TRANSPARENT_COLOUR

\* C18: when a FrameDecode(i) composites with i = 0, or while the decoder
\* holds no decoded frame (decoded_frame is NSGIF_INVALID_FRAME when the
\* call is made), every pixel of the canvas is 0x00000000 before the first
\* pixel of frame i is written.
C18_FirstCompositeOnClearCanvas ==
    [][(/\ last'.op = "decode"
        /\ env'.composed
        /\ \/ last'.arg = 0
           \/ gif.decoded_frame = NSGIF_INVALID_FRAME)
          => Cleared(env'.pre)]_vars

\* The last call was a FrameDecode that composited frame k and returned OK.
Composited(k) ==
    /\ last.op = "decode" /\ last.arg = k /\ last.ret = "OK"
    /\ env.composed
    /\ gif.decoded_frame = k

\* C19: when frame i-1 has disposal restore-previous and FrameDecode(i)
\* composites right after a FrameDecode(i-1) that composited, the canvas
\* frame i's pixels are written onto is the canvas frame i-1's pixels
\* were written onto, whatever was decoded before.
C19_RestorePreviousRecovers ==
    [][(/\ Composited(last.arg)
        /\ gif.frames[last.arg + 1].disposal_method
             = NSGIF_DISPOSAL_RESTORE_PREV
        /\ last'.op = "decode" /\ last'.arg = last.arg + 1
        /\ env'.composed)
          => env'.pre = env.pre]_vars

\* The background colour of the stream: the global colour table's entry
\* at the background index, entry 0 when there is no such entry.
BackgroundOf(g) ==
    IF g.global_colours /\ g.bg_index < g.colour_table_size
    THEN TableAt(g.global_colour_table, g.bg_index)
    ELSE g.global_colour_table[1]

\* The canvas c with frame k's rectangle, where it lies on the canvas,
\* filled with the background colour, or with transparent black when
\* frame k has a transparent index.
Disposed(c, g, k) ==
    LET f == g.frames[k + 1]
        colour == IF f.transparency THEN NSGIF_TRANSPARENT_COLOUR
                  ELSE BackgroundOf(g)
        inside(p) ==
            /\ (p - 1) % g.width >= f.redraw.x
            /\ (p - 1) % g.width < f.redraw.x + f.redraw.w
            /\ (p - 1) \div g.width >= f.redraw.y
            /\ (p - 1) \div g.width < f.redraw.y + f.redraw.h
    IN [p \in 1..Len(c) |-> IF inside(p) THEN colour ELSE c[p]]

\* C20: when frame i-1 has disposal restore-background and FrameDecode(i)
\* composites right after a FrameDecode(i-1) that composited, the canvas
\* frame i's pixels are written onto is the canvas FrameDecode(i-1) left
\* with the part of frame i-1's rectangle that lies on the canvas set to
\* the background colour (0x00000000 when frame i-1 has transparency),
\* and no store has gone elsewhere, wherever frame i-1's offset lies.
C20_RestoreBackgroundFillsRectangle ==
    [][(/\ Composited(last.arg)
        /\ ~env.oob
        /\ gif.frames[last.arg + 1].disposal_method
             = NSGIF_DISPOSAL_RESTORE_BG
        /\ last'.op = "decode" /\ last'.arg = last.arg + 1
        /\ env'.composed)
          => /\ env'.pre = Disposed(env.pix, gif, last.arg)
             /\ ~env'.preoob]_vars

---------------------------------------------------------------------------
(* Rasters: what a frame's own pixels do to the canvas.  The behaviours    *)
(* here survey a whole stream and decode its frames in any order.          *)
(***************************************************************************)

\* 1x1 logical screen; frame 0 is one pixel, frame 1 is as wide as the
\* canvas and two rows high (indices 1, 0), not interlaced.
StreamTall ==
    <<71, 73, 70, 56, 57, 97, 1, 0, 1, 0, 128, 0, 0, 0, 0, 0, 255, 255,
      255, 44, 0, 0, 0, 0, 1, 0, 1, 0, 0, 2, 2, 68, 1, 0, 44, 0, 0, 0, 0,
      1, 0, 2, 0, 0, 2, 2, 12, 10, 0, 59>>

\* 1x5 logical screen with one interlaced frame of five rows whose source
\* rows hold the indices 1, 1, 0, 0, 1.
StreamLaced ==
    <<71, 73, 70, 56, 57, 97, 1, 0, 5, 0, 128, 0, 0, 0, 0, 0, 255, 255,
      255, 44, 0, 0, 0, 0, 1, 0, 5, 0, 64, 2, 3, 76, 0, 81, 0, 59>>

\* 2x1 logical screen; frame 0 covers it (indices 1, 0); frame 1 is two
\* pixels wide at x = 1 (indices 1, 0); frame 2 is two rows high at x = 0
\* (indices 0, 1); frames 1 and 2 have transparent index 0.
StreamWide ==
    <<71, 73, 70, 56, 57, 97, 2, 0, 1, 0, 128, 0, 0, 0, 0, 0, 255, 255,
      255, 44, 0, 0, 0, 0, 2, 0, 1, 0, 0, 2, 2, 12, 10, 0, 33, 249, 4, 1,
      10, 0, 0, 0, 44, 1, 0, 0, 0, 2, 0, 1, 0, 0, 2, 2, 12, 10, 0, 33, 249,
      4, 1, 10, 0, 0, 0, 44, 0, 0, 0, 0, 1, 0, 2, 0, 0, 2, 2, 68, 10, 0,
      59>>

\* 1x3 logical screen; frame 0 covers it (indices 1, 0, 1); frame 1 is an
\* interlaced image of five rows at (0,0) whose rows 0..4 hold the indices
\* 0, 1, 0, 1, 1 (stored in the order of the rows 0, 4, 2, 1, 3).
StreamLacedTall ==
    <<71, 73, 70, 56, 57, 97, 1, 0, 3, 0, 128, 0, 0, 0, 0, 0, 255, 255,
      255, 44, 0, 0, 0, 0, 1, 0, 3, 0, 0, 2, 2, 12, 82, 0, 44, 0, 0, 0, 0,
      1, 0, 5, 0, 64, 2, 3, 68, 16, 81, 0, 59>>

RasterStreams == <<StreamTall, StreamLaced, StreamWide, StreamLacedTall>>

\* The colour indices each frame's image data holds, row by row as the
\* stream stores them.
RasterPixels ==
    << << <<0>>, <<1, 0>> >>,
       << <<1, 1, 0, 0, 1>> >>,
       << <<1, 0>>, <<1, 0>>, <<0, 1>> >>,
       << <<1, 0, 1>>, <<0, 1, 0, 1, 1>> >> >>

\* DataScan with the whole stream, by either implementation.
ScanData ==
    /\ Usable
    /\ Commit("scan", Len(data),
              IF impl = "nsgif"
              THEN nsgif_initialise(World("none", FALSE, "crash"), Len(data))
              ELSE gif_initialise(World("none", FALSE, "crash"), Len(data)))

InitRaster ==
    /\ impl \in {"nsgif", "gif"}
    /\ sid \in 1..Len(RasterStreams)
    /\ gif = nsgif_create
    /\ data = RasterStreams[sid]
    /\ env = InitEnv
    /\ last = [op |-> "create", arg |-> 0, ret |-> "OK", chain |-> TRUE,
               scan |-> "none"]
    /\ anim = InitAnim
    /\ line = NoLine
    /\ walk = NoWalk

NextRaster == ScanData \/ Decode

SpecRaster == InitRaster /\ [][NextRaster]_vars

\* Frame f of decoder g goes down the fast path of nsgif__decode: it is
\* not interlaced, starts in column 0 and is as wide as the canvas.
FastPath(g, f) ==
    /\ ~Bit(f.flags, 6)
    /\ f.redraw.w = g.width
    /\ f.redraw.x = 0

\* frame_height - max(0, offset_y + frame_height - canvas_height)
ClippedHeight(g, f) ==
    f.redraw.h - (IF f.redraw.y + f.redraw.h > g.height
                  THEN f.redraw.y + f.redraw.h - g.height ELSE 0)

\* The pixel indices of the rows of the canvas frame f may write on the
\* fast path: canvas_width * clipped_height of them from row offset_y.
FastBand(g, f) ==
    {p \in 0..(g.width * g.height - 1) :
        /\ p >= f.redraw.y * g.width
        /\ p < f.redraw.y * g.width + g.width * ClippedHeight(g, f)}

\* C21: a FrameDecode whose frame goes down the fast path writes at most
\* canvas_width * clipped_height pixels, those of the frame's rows on the
\* canvas: no store lands at or beyond canvas_width * canvas_height and
\* every pixel of another row keeps what pre-compose left there.
C21_FastPathStaysOnCanvas ==
    [][(/\ last'.op = "decode"
        /\ env'.composed /\ ~env'.preoob
        /\ Stored(last'.arg)
        /\ FastPath(gif, gif.frames[last'.arg + 1]))
          => /\ ~env'.oob
             /\ \A p \in 0..(Len(env'.pix) - 1) :
                   p \notin FastBand(gif, gif.frames[last'.arg + 1])
                      => env'.pix[p + 1] = env'.pre[p + 1]]_vars

\* The rows start, start + step, .. below h, in order.
Pass(h, start, step) ==
    [k \in 1..(IF h > start THEN (h - start - 1) \div step + 1 ELSE 0) |->
        start + (k - 1) * step]

\* The order in which the rows of an interlaced image of h rows follow each
\* other in the stream: every 8th row from 0, every 8th from 4, every 4th
\* from 2, every 2nd from 1.
InterlaceOrder(h) ==
    Pass(h, 0, 8) \o Pass(h, 4, 8) \o Pass(h, 2, 4) \o Pass(h, 1, 2)

\* Where in the stream the image row is stored (counting from 0).
StreamRow(f, row) ==
    IF Bit(f.flags, 6)
    THEN (CHOOSE k \in 1..f.redraw.h : InterlaceOrder(f.redraw.h)[k] = row) - 1
    ELSE row

\* The canvas that results when the image src of frame f is drawn onto
\* the canvas c of decoder g with the colours of table: a pixel under the
\* frame's rectangle takes the colour of the image pixel above it, unless
\* that one has the frame's transparent index; any other pixel is kept.
Drawn(c, g, f, src, table) ==
    LET x(p) == (p - 1) % g.width
        y(p) == (p - 1) \div g.width
        under(p) ==
            /\ x(p) >= f.redraw.x /\ x(p) < f.redraw.x + f.redraw.w
            /\ y(p) >= f.redraw.y /\ y(p) < f.redraw.y + f.redraw.h
        index(p) == src[StreamRow(f, y(p) - f.redraw.y) * f.redraw.w
                          + (x(p) - f.redraw.x) + 1]
        colour(p, i) == IF f.transparency /\ i = f.transparency_index
                        THEN c[p] ELSE TableAt(table, i)
    IN [p \in 1..Len(c) |-> IF under(p) THEN colour(p, index(p)) ELSE c[p]]

\* C22: after a FrameDecode(i) that returned OK, for a frame whose data
\* holds all its pixels, every canvas pixel under the frame's rectangle
\* has the palette colour of the image pixel of its row and column, or its
\* pre-compose value where that pixel has the transparent index, and every
\* other canvas pixel has its pre-compose value: interlaced or not,
\* clipped at the right or at the bottom or not.
C22_FramePixelsLandInPlace ==
    [][(/\ last'.op = "decode" /\ last'.ret = "OK"
        /\ env'.composed /\ ~env'.preoob
        /\ Stored(last'.arg))
          => env'.pix = Drawn(env'.pre, gif', gif'.frames[last'.arg + 1],
                              RasterPixels[sid][last'.arg + 1],
                              gif'.global_colour_table)]_vars

---------------------------------------------------------------------------
(* The bitmap and the canvas.                                              *)
(***************************************************************************)

\* C23: while the decoder holds a bitmap, the canvas width and height it
\* composites with are the width and height it passed to the create hook,
\* and no store of pre-compose or decode has gone outside the bitmap; also
\* when DataScan calls survey more frames after the first FrameDecode.
C23_CanvasIsTheBitmap ==
    (Usable /\ gif.frame_image # 0)
        => /\ gif.width = env.w /\ gif.height = env.h
           /\ ~env.oob

\* C24: a FrameDecode(i) makes i the decoded frame only by compositing
\* frame i and returning OK, and a FrameDecode(i) that returned an error
\* is not followed by a FrameDecode(i) that returns OK without
\* compositing.
C24_DecodedLatchMeansComposited ==
    [][(last'.op = "decode" /\ last'.ret # "CRASH")
          => /\ (gif'.decoded_frame = last'.arg
                   /\ gif.decoded_frame # last'.arg)
                   => (last'.ret = "OK" /\ env'.composed)
             /\ (/\ last.op = "decode" /\ last.arg = last'.arg
                 /\ last.ret \notin {"OK", "CRASH"}
                 /\ last'.ret = "OK")
                   => env'.composed]_vars

---------------------------------------------------------------------------
(* What a call leaves alone.                                               *)
(***************************************************************************)

\* C25: no call writes to the source buffer: after every DataScan and
\* FrameDecode its bytes are the bytes of the stream the embedder loaded,
\* for whole and for truncated input.
C25_SourceBytesUntouched == data = Streams[sid]

\* C26: a FrameDecode(i) of a frame the survey has counted leaves the
\* survey state as it was, whether it succeeds or fails: the parse cursor,
\* frame_count, frame_count_partial, the canvas width and height, loop-max
\* and every frame record's offset, rectangle, disposal, transparency and
\* delay.
C26_DecodeKeepsSurveyState ==
    [][(/\ last'.op = "decode" /\ last'.ret # "CRASH"
        /\ last'.arg < gif.frame_count
        /\ \A k \in 0..last'.arg : Stored(k))
          => ScanState(gif') = ScanState(gif)]_vars

\* C26's case: the survey counted the frame with the bad LZW code, and a
\* FrameDecode of it came to compositing and failed.
C26_Witness ==
    /\ Usable
    /\ sid = 3
    /\ last.op = "decode" /\ last.arg = 0 /\ last.ret = "FRAME_DATA_ERROR"
    /\ gif.frame_count = 1 /\ Stored(0)
    /\ env.composed
    /\ gif.buffer_position > GIF_STANDARD_HEADER_SIZE

---------------------------------------------------------------------------
(* The bitmap hooks.                                                       *)
(***************************************************************************)

\* C27: every call of the get_buffer, set_opaque, test_opaque, modified or
\* destroy hook passes a handle that create returned, never NULL; so a
\* FrameDecode that returns before a bitmap exists calls no hook.
C27_HooksGetABitmap ==
    /\ \A c \in env.hooks : c[2] \in 1..env.made
    /\ \A k \in 1..Len(env.destroyed) : env.destroyed[k] \in 1..env.made

---------------------------------------------------------------------------
(* Interlaced rows.  The row loop of a decode, one row a step: the         *)
(* do .. while (nsgif__next_row()) loop of nsgif__decode_complex and the   *)
(* for (y = 0; y < height; y++) loop of gif__decode_complex, for an        *)
(* interlaced frame of any height up to MaxRows.                           *)
(***************************************************************************)

\* The tallest frame whose rows are walked.
MaxRows == 20

\* One pass of the row loop: the row it writes, and the next row.
NextRow ==
    /\ line.more
    /\ line' =
         IF impl = "nsgif"
         THEN LET n == nsgif__next_row(TRUE, line.height, line.y, line.step)
              IN [line EXCEPT !.k = @ + 1, !.rows = Append(@, line.y),
                              !.y = n.y, !.step = n.step, !.more = n.more]
         ELSE [line EXCEPT !.k = @ + 1,
                           !.rows = Append(@, gif_interlaced_line(line.height,
                                                                  line.k)),
                           !.more = line.k + 1 < line.height]
    /\ UNCHANGED <<impl, sid, gif, data, env, last, anim, walk>>

InitLines ==
    /\ impl \in {"nsgif", "gif"}
    /\ sid = 1
    /\ gif = nsgif_create
    /\ data = Streams[sid]
    /\ env = InitEnv
    /\ last = [op |-> "create", arg |-> 0, ret |-> "OK", chain |-> TRUE,
               scan |-> "none"]
    /\ anim = InitAnim
    /\ \E h \in 1..MaxRows : line = [NoLine EXCEPT !.height = h, !.more = TRUE]
    /\ walk = NoWalk

NextLines == NextRow

SpecLines == InitLines /\ [][NextLines]_vars

\* C28: the rows of an interlaced frame of h >= 1 rows are visited in the
\* order 0, 8, 16, ..; 4, 12, 20, ..; 2, 6, 10, ..; 1, 3, 5, .. of the rows
\* below h: every row 0..h-1 exactly once.
C28_InterlacedRowOrder ==
    /\ Len(line.rows) <= line.height
    /\ line.rows = SubSeq(InterlaceOrder(line.height), 1, Len(line.rows))
    /\ \A i, j \in 1..Len(line.rows) : line.rows[i] = line.rows[j] => i = j
    /\ (line.height > 0 /\ ~line.more)
          => {line.rows[i] : i \in 1..Len(line.rows)} = 0..(line.height - 1)

\* C28's case: the row loop of a frame of 13 rows has come to its end
\* after the rows 0, 8, 4, 12, 2, 6, 10, 1, 3, 5, 7, 9, 11.
C28_Witness ==
    /\ line.height = 13
    /\ ~line.more
    /\ line.rows = <<0, 8, 4, 12, 2, 6, 10, 1, 3, 5, 7, 9, 11>>

---------------------------------------------------------------------------
(* The graphic control extension's packed byte.                            *)
(***************************************************************************)

\* Every value of the packed byte.
PackedBytes == 0..255

\* StreamStatic with a graphic control extension in front of its frame:
\* packed byte p, delay 10, transparent index 0.
GceStream(p) ==
    SubSeq(StreamStatic, 1, 19) \o <<33, 249, 4, p, 10, 0, 0, 0>>
        \o SubSeq(StreamStatic, 20, Len(StreamStatic))

InitDisposal ==
    /\ impl \in {"nsgif", "gif"}
    /\ sid = 1
    /\ gif = nsgif_create
    /\ \E p \in PackedBytes : data = GceStream(p)
    /\ env = InitEnv
    /\ last = [op |-> "create", arg |-> 0, ret |-> "OK", chain |-> TRUE,
               scan |-> "none"]
    /\ anim = InitAnim
    /\ line = NoLine
    /\ walk = NoWalk

NextDisposal == ScanData

SpecDisposal == InitDisposal /\ [][NextDisposal]_vars

\* The disposal methods a frame record may hold.
DisposalMethods ==
    {0, 1, NSGIF_DISPOSAL_RESTORE_BG, NSGIF_DISPOSAL_RESTORE_PREV}

\* C29: after a survey every frame record holds one of the disposal
\* methods 0 (unspecified), 1 (none), 2 (restore background) and 3
\* (restore previous), whatever the packed byte of the frame's graphic
\* control extension is; disposal code 4 is stored as 3.
C29_DisposalInRange ==
    \A k \in 0..(gif.frame_count - 1) :
        Stored(k) =>
           /\ gif.frames[k + 1].disposal_method \in DisposalMethods
           /\ (data[23] \div 4) % 8 = NSGIF_DISPOSAL_RESTORE_QUIRK
                 => gif.frames[k + 1].disposal_method
                      = NSGIF_DISPOSAL_RESTORE_PREV

---------------------------------------------------------------------------
(* The loops of DataScan, one pass at a time (src/utils/log.h).            *)

\* A GIF whose frames sit between comment extensions of one and two
\* sub-blocks and a graphic control extension, with image data of two
\* sub-blocks each.
StreamBlocks ==
    <<71, 73, 70, 56, 57, 97, 1, 0, 1, 0, 128, 0, 0, 0, 0, 0, 255, 255,
      255, 33, 254, 2, 97, 98, 1, 99, 0, 33, 249, 4, 0, 10, 0, 0, 0, 44, 0,
      0, 0, 0, 1, 0, 1, 0, 0, 2, 1, 68, 1, 1, 0, 33, 254, 1, 100, 0, 44, 0,
      0, 0, 0, 1, 0, 1, 0, 0, 2, 1, 76, 1, 1, 0, 59>>

\* One frame, then a comment extension whose second sub-block runs past the
\* end of the data.
StreamRunOff ==
    <<71, 73, 70, 56, 57, 97, 1, 0, 1, 0, 128, 0, 0, 0, 0, 0, 255, 255,
      255, 44, 0, 0, 0, 0, 1, 0, 1, 0, 0, 2, 1, 68, 1, 1, 0, 33, 254, 1,
      97, 9, 98, 99>>

\* One frame, then a frame whose second image sub-block runs past the end
\* of the data.
StreamOverrun ==
    <<71, 73, 70, 56, 57, 97, 1, 0, 1, 0, 128, 0, 0, 0, 0, 0, 255, 255,
      255, 44, 0, 0, 0, 0, 1, 0, 1, 0, 0, 2, 1, 68, 1, 1, 0, 44, 0, 0, 0,
      0, 1, 0, 1, 0, 0, 2, 1, 68, 7, 1, 2>>

WalkStreams == <<StreamBlocks, StreamRunOff, StreamOverrun>>

\* The lengths at which the embedder hands each of them over.
WalkCuts == << {13, 20, 22, 24, 26, 27, 30, 35, 46, 48, 50, 51, 53, 56, 69,
                72, 73},
               {35, 36, 38, 40, 42},
               {35, 46, 47, 49, 51} >>

\* The sub-block passes counted during one call.
MaxBlocks == 8

\* Where a pass leaves the call: at, the loop's cursor p, the cursor pos of
\* nsgif__process_frame, the code so far, and the world.
Step(at, p, pos, ret, s) == [at |-> at, p |-> p, pos |-> pos, ret |-> ret, s |-> s]

\* nsgif__process_frame (decode = false) up to the extensions.
process_frame_enter(s) ==
    LET gf == nsgif__get_frame(s, s.g.frame_count)
        pos == s.g.buffer_position
    IN IF pos < s.g.buffer_size /\ D(s, pos) = NSGIF_TRAILER
       THEN Step("ret", pos, pos, "OK", gf.s)
       ELSE IF s.g.frame_count > MaxFrames
       THEN Step("ret", pos, pos, "FRAME_DATA_ERROR", gf.s)
       ELSE Step("ext", pos, pos, "WORKING", gf.s)

\* nsgif__parse_image_data (decode = false) up to its sub-block loop.
parse_image_data_enter(s, frame_idx, pos) ==
    LET len == s.g.buffer_size - pos
        s1 == [s EXCEPT !.g.frame_count_partial = frame_idx + 1]
    IN \* switch (len)
       IF len >= 3 /\ D(s, pos) = NSGIF_TRAILER
       THEN Step("ret", pos, pos, "OK", s1)
       ELSE IF len = 2 /\ D(s, pos + 1) = NSGIF_TRAILER
       THEN Step("ret", pos, pos, "OK", s1)
       ELSE IF len \in {1, 2} /\ D(s, pos) = NSGIF_TRAILER
       THEN Step("ret", pos, pos, "OK", s1)
       ELSE IF len <= 2 THEN Step("ret", pos, pos, "INSUFFICIENT_DATA", s1)
       ELSE IF D(s, pos) >= LZW_CODE_MAX
       THEN Step("ret", pos, pos, "DATA_ERROR", s1)
       ELSE Step("image", pos + 1, pos, "WORKING", s1)

\* nsgif__process_frame (decode = false) from the image descriptor to the
\* sub-block loop of nsgif__parse_image_data.
process_frame_image(s, frame_idx, pos) ==
    LET table(r3) ==
            IF r3.ret # "OK" THEN Step("ret", r3.pos, r3.pos, r3.ret, r3.s)
            ELSE parse_image_data_enter(r3.s, frame_idx, r3.pos)
        descriptor(r2) ==
            IF r2.ret # "OK" THEN Step("ret", r2.pos, r2.pos, r2.ret, r2.s)
            ELSE table(nsgif__parse_colour_table(r2.s, frame_idx, r2.pos,
                                                 FALSE))
    IN descriptor(nsgif__parse_image_descriptor(s, frame_idx, pos, TRUE))

\* One pass of the while of nsgif__parse_frame_extensions, from its test
\* to the sub-block loop; the function is left for the image descriptor
\* when the test fails.  pos is written on that way out only.
parse_frame_extensions_pass(s, frame_idx, p, pos) ==
    LET end == s.g.buffer_size
        q == p + 1
        bytes == end - q
        label == D(s, q)
        block_step == label # GIF_EXT_COMMENT
        parsed(r) ==
            IF r.ret # "OK" THEN Step("ret", p, pos, r.ret, r.s)
            ELSE IF block_step /\ bytes < 2
            THEN Step("ret", p, pos, "INSUFFICIENT_DATA", r.s)
            ELSE Step("blocks",
                      IF block_step THEN q + 2 + D(s, q + 1) ELSE q + 1,
                      pos, "WORKING", r.s)
    IN IF ~(end - p > 0 /\ D(s, p) = GIF_EXT_INTRODUCER)
       THEN process_frame_image(s, frame_idx, Min(p, end))
       ELSE IF bytes = 0 THEN Step("ret", p, pos, "INSUFFICIENT_DATA", s)
       ELSE parsed(IF label = GIF_EXT_GRAPHIC_CONTROL
                   THEN nsgif__parse_extension_graphic_control(
                            s, frame_idx, q, bytes)
                   ELSE IF label = GIF_EXT_APPLICATION
                   THEN nsgif__parse_extension_application(s, q, bytes)
                   ELSE R("OK", q, s))

\* One pass of the sub-block loop of nsgif__parse_frame_extensions; when
\* its test fails the cursor steps over the terminator and the extension
\* loop goes round.
parse_frame_extensions_block(s, frame_idx, p, pos) ==
    LET end == s.g.buffer_size
        q == p + D(s, p) + 1
    IN IF p < end /\ D(s, p) # NSGIF_BLOCK_TERMINATOR
       THEN IF q >= end THEN Step("ret", p, pos, "INSUFFICIENT_DATA", s)
            ELSE Step("blocks", q, pos, "WORKING", s)
       ELSE Step("ext", p + 1, pos, "WORKING", s)

\* nsgif__parse_image_data (decode = false) after its sub-block loop: the
\* frame is counted, and NSGIF_WORKING says that more may follow.
parse_image_data_leave(s, frame_idx, data_) ==
    LET s2 == [SetF(s, frame_idx, [F(s, frame_idx) EXCEPT !.display = TRUE])
                 EXCEPT !.g.frame_count = frame_idx + 1]
    IN IF s.g.buffer_size - data_ < 1
       THEN Step("ret", data_, data_, "INSUFFICIENT_DATA", s2)
       ELSE IF D(s, data_) = NSGIF_TRAILER
       THEN Step("ret", data_, data_, "OK", s2)
       ELSE Step("frames", data_, data_, "WORKING", s2)

\* A pass of the image data loop that reads the block size and leaves the
\* cursor where it was.
parse_image_data_block_stuck(s, frame_idx, p, pos) ==
    LET len == s.g.buffer_size - p
        block_size == D(s, p) + 1
    IN IF len < 1 THEN Step("ret", p, pos, "INSUFFICIENT_DATA", s)
       ELSE IF block_size > len
       THEN Step("ret", p, pos, "OK",
                 [s EXCEPT !.e.overrun = [frame |-> frame_idx, left |-> len]])
       ELSE IF block_size # 1 THEN Step("image", p, pos, "WORKING", s)
       ELSE parse_image_data_leave(s, frame_idx, p + block_size)

\* One pass of the while of nsgif__parse_image_data (decode = false).
parse_image_data_block(s, frame_idx, p, pos) ==
    LET len == s.g.buffer_size - p
        block_size == D(s, p) + 1
    IN IF len < 1 THEN Step("ret", p, pos, "INSUFFICIENT_DATA", s)
       ELSE IF block_size > len
       THEN Step("ret", p, pos, "OK",
                 [s EXCEPT !.e.overrun = [frame |-> frame_idx, left |-> len]])
       ELSE IF block_size # 1
       THEN Step("image", p + block_size, pos, "WORKING", s)
       ELSE parse_image_data_leave(s, frame_idx, p + block_size)

\* The world as the call under way has it.
WalkWorld ==
    [g |-> gif, d |-> data, e |-> env,
     oom |-> "none", opq |-> FALSE, ub |-> "crash"]

\* nsgif_initialise returns ret.
WalkReturn(ret, size) ==
    last' = [op |-> "scan", arg |-> size, ret |-> ret,
             chain |-> ChainSoFar, scan |-> ret]

\* A pass took the call to w.  When the iteration of the frame loop is over
\* nsgif__process_frame writes its cursor to the decoder.
Walked(w, ext, img) ==
    /\ walk' = [walk EXCEPT !.at = w.at, !.p = w.p, !.pos = w.pos,
                            !.ret = w.ret,
                            !.ext = Min(@ + ext, MaxBlocks),
                            !.img = Min(@ + img, MaxBlocks),
                            !.ran = TRUE,
                            !.g0 = IF walk.at = "frames" THEN gif ELSE @]
    /\ gif' = IF w.at \in {"frames", "ret"}
              THEN [w.s.g EXCEPT !.buffer_position = w.pos]
              ELSE w.s.g
    /\ data' = w.s.d
    /\ env' = w.s.e
    /\ IF w.at = "ret" THEN WalkReturn(w.ret, gif.buffer_size)
       ELSE UNCHANGED last
    /\ UNCHANGED <<impl, sid, anim, line>>

\* DataScan is called: nsgif_initialise up to its frame loop.
BeginScan ==
    /\ Usable
    /\ walk.at \in {"idle", "ret"}
    /\ \E size \in WalkCuts[sid] :
          /\ size >= gif.buffer_size
          /\ LET rest(rh) ==
                     IF rh.ret # "GO" THEN rh
                     ELSE nsgif_initialise_colours(rh.s, rh.pos)
             IN \E r \in {rest(nsgif_initialise_header(
                               [World("none", FALSE, "crash")
                                   EXCEPT !.g.buffer_size = size]))} :
                   /\ gif' = r.s.g
                   /\ data' = r.s.d
                   /\ env' = [r.s.e EXCEPT !.crashed = (r.ret = "CRASH")]
                   /\ walk' = [NoWalk EXCEPT
                                 !.at = IF r.ret = "GO" THEN "frames"
                                        ELSE "ret",
                                 !.p = r.s.g.buffer_position,
                                 !.pos = r.s.g.buffer_position,
                                 !.ret = IF r.ret = "GO" THEN "WORKING"
                                         ELSE r.ret]
                   /\ IF r.ret = "GO" THEN UNCHANGED last
                      ELSE WalkReturn(r.ret, size)
    /\ UNCHANGED <<impl, sid, anim, line>>

\* do { ret = nsgif__process_frame(gif, gif->frame_count, false); }
FrameLoop ==
    /\ walk.at = "frames"
    /\ \E w \in {process_frame_enter(WalkWorld)} : Walked(w, 0, 0)

\* while (nsgif_bytes > 0 && nsgif_data[0] == GIF_EXT_INTRODUCER)
ExtensionLoop ==
    /\ walk.at = "ext"
    /\ \E w \in {parse_frame_extensions_pass(WalkWorld, gif.frame_count,
                                              walk.p, walk.pos)} :
          Walked(w, 0, 0)

\* while (nsgif_data < nsgif_end && nsgif_data[0] != NSGIF_BLOCK_TERMINATOR)
ExtensionBlocks ==
    /\ walk.at = "blocks"
    /\ \E w \in {parse_frame_extensions_block(WalkWorld, gif.frame_count,
                                               walk.p, walk.pos)} :
          Walked(w, 1, 0)

\* while (block_size != 1)
ImageBlocks ==
    /\ walk.at = "image"
    /\ \E w \in {parse_image_data_block(WalkWorld, gif.frame_count,
                                         walk.p, walk.pos)} :
          Walked(w, 0, 1)

InitWalk ==
    /\ impl = "nsgif"
    /\ sid \in 1..Len(WalkStreams)
    /\ gif = nsgif_create
    /\ data = WalkStreams[sid]
    /\ env = InitEnv
    /\ last = [op |-> "create", arg |-> 0, ret |-> "OK", chain |-> TRUE,
               scan |-> "none"]
    /\ anim = InitAnim
    /\ line = NoLine
    /\ walk = NoWalk

LoopPass == FrameLoop \/ ExtensionLoop \/ ExtensionBlocks \/ ImageBlocks

NextWalk == BeginScan \/ LoopPass

\* The calls are synchronous: a loop that is entered runs on until the
\* call returns.
SpecWalk == InitWalk /\ [][NextWalk]_vars /\ WF_vars(LoopPass)

\* An iteration of the frame loop made pass by pass leaves the decoder and
\* the embedder as nsgif__process_frame leaves them, with the same code.
WalkAgrees ==
    (walk.ran /\ walk.at \in {"frames", "ret"})
        => LET r == nsgif__process_frame_survey(
                        [WalkWorld EXCEPT !.g = walk.g0,
                                          !.e.overrun = NoOverrun],
                        walk.g0.frame_count)
           IN /\ walk.ret = r.ret
              /\ gif = r.s.g
              /\ env = r.s.e
              /\ walk.at = "ret" => last.ret = r.ret

Looping == {"ext", "blocks", "image"}

\* A pass of a loop that does not return moves the cursor on: inside the
\* iteration of the frame loop walk.p, from one iteration of the frame loop
\* to the next gif.buffer_position.
PassAdvances ==
    /\ (walk.at \in Looping /\ walk'.at \in Looping) => walk'.p > walk.p
    /\ (walk.at \in Looping \cup {"frames"} /\ walk'.at = "frames")
          => /\ gif'.buffer_position > gif.buffer_position
             /\ gif'.buffer_position <= gif.buffer_size
    /\ walk'.at \in Looping => walk'.p <= gif.buffer_size + 257

\* C30: DataScan terminates on every finite input: each pass of the frame
\* loop, of the extension loop and of the two sub-block skipping loops
\* either moves the cursor forward or returns, and every call that entered
\* the frame loop returns.
C30_ScanTerminates ==
    /\ [][PassAdvances]_vars
    /\ (walk.at \in Looping \cup {"frames"}) ~> (walk.at = "ret")

\* A scan of the whole of StreamBlocks has returned NSGIF_OK with both
\* frames counted, after three passes of the extension sub-block loop and
\* six of the image data loop.
C30_Witness ==
    /\ sid = 1
    /\ walk.at = "ret"
    /\ last.op = "scan" /\ last.arg = Len(StreamBlocks) /\ last.ret = "OK"
    /\ gif.frame_count = 2
    /\ walk.ext >= 3
    /\ walk.img = 6

====
